------------------------- MODULE IntegerValuesProofs -------------------------
(***************************************************************************)
(* Proofs about integer values, for every width up to 64 bits.             *)
(*                                                                         *)
(* Of WasmValuesBuilder, for graphs of every shape and size: the bits that *)
(* are derived of a node suffice in every execution, and what may be       *)
(* executed early does not trap by itself.  Of ValueResolver, for any      *)
(* number of values written: what a value is resolved to has its value.    *)
(***************************************************************************)
EXTENDS WasmValuesBuilder, ValueResolver, ModularArithmetic, SequenceTheorems

\* The numbers of w bits.
Word(w) == 0 .. 2^w - 1

\* The numbers that n bits of two's complement hold.
Holds(n, z) == z \in Int /\ -(2^(n - 1)) <= z /\ z < 2^(n - 1)

\* x and z agree in their n lowest bits.
Congruent(n, x, z) == x \in Int /\ z \in Int /\ \E k \in Int : x = z + k * 2^n

LEMMA TopBit ==
    ASSUME NEW w \in Nat, w > 0
    PROVE  /\ 2^w \in Nat /\ 2^(w - 1) \in Nat /\ 2^(w - 1) > 0
           /\ 2^w = 2 * 2^(w - 1)
<1>1. w - 1 \in Nat /\ (w - 1) + 1 = w
  OBVIOUS
<1> QED
  BY <1>1, PowerStep

\* A word read as two's complement.
LEMMA SignedOfWord ==
    ASSUME NEW w \in Nat, w > 0, NEW x \in Word(w)
    PROVE  /\ SignedInteger(w, x) = IF x < 2^(w - 1) THEN x ELSE x - 2^w
           /\ Holds(w, SignedInteger(w, x))
<1> DEFINE p == 2^w
           h == 2^(w - 1)
<1>1. p \in Nat /\ h \in Nat /\ h > 0 /\ p = 2 * h /\ x \in 0 .. p - 1
  BY TopBit DEF Word
<1> HIDE DEF p, h
<1>2. x % p = x
  <2>1. x = 0 * p + x
    BY <1>1
  <2> QED
    BY <1>1, <2>1, UniqueRemainder
<1>3. SignedInteger(w, x) = IF x < h THEN x ELSE x - p
  BY <1>2 DEF p, h, SignedInteger
<1>4. SignedInteger(w, x) \in Int /\ -h <= SignedInteger(w, x) /\ SignedInteger(w, x) < h
  BY <1>1, <1>3
<1> QED
  BY <1>3, <1>4 DEF p, h, Holds

\* Only one number in the range of a width differs from x by a multiple of 2^w.
LEMMA SignedUnique ==
    ASSUME NEW w \in Nat, w > 0, NEW x, NEW z, Holds(w, z), Congruent(w, x, z)
    PROVE  SignedInteger(w, x) = z
<1> DEFINE p == 2^w
           h == 2^(w - 1)
<1>0. PICK k \in Int : x = z + k * p /\ x \in Int
  BY DEF Congruent
<1>1. /\ p \in Nat /\ p > 0 /\ h \in Nat /\ h > 0 /\ p = 2 * h
      /\ z \in Int /\ -h <= z /\ z < h /\ x = z + k * p /\ k \in Int /\ x \in Int
  BY <1>0, TopBit DEF Holds
<1>2. SignedInteger(w, x) = IF x % p < h THEN x % p ELSE (x % p) - p
  BY DEF SignedInteger
<1> HIDE DEF p, h
<1>3. CASE z >= 0
  <2>1. x = k * p + z /\ z \in 0 .. p - 1
    BY <1>1, <1>3
  <2>2. x % p = z
    BY <1>1, <2>1, UniqueRemainder
  <2> QED
    BY <1>1, <1>2, <2>2
<1>4. CASE z < 0
  <2>1. (k - 1) * p = k * p - p
    BY <1>1
  <2> DEFINE j == k - 1
             o == z + p
  <2>2. x = j * p + o /\ o \in 0 .. p - 1 /\ j \in Int
    BY <1>1, <1>4, <2>1
  <2> HIDE DEF j, o
  <2>3. x % p = o
    BY <1>1, <2>2, UniqueRemainder
  <2> QED
    BY <1>1, <1>2, <1>4, <2>2, <2>3 DEF o
<1> QED
  BY <1>1, <1>3, <1>4

\* Every number differs from what it is read as by a multiple of 2^w.
LEMMA SignedCongruent ==
    ASSUME NEW w \in Nat, w > 0, NEW x \in Int
    PROVE  /\ Holds(w, SignedInteger(w, x))
           /\ Congruent(w, x, SignedInteger(w, x))
<1> DEFINE p == 2^w
           h == 2^(w - 1)
           q == x \div p
           r == x % p
<1>1. p \in Nat /\ h \in Nat /\ h > 0 /\ p = 2 * h
  BY TopBit
<1>2. SignedInteger(w, x) = IF r < h THEN r ELSE r - p
  BY DEF SignedInteger
<1>3. q \in Int /\ r \in 0 .. p - 1 /\ x = q * p + r
  <2> HIDE DEF p, h
  <2> QED
    BY <1>1
<1> HIDE DEF p, h, q, r
<1>4. (q + 1) * p = q * p + p /\ q + 1 \in Int
  BY <1>1, <1>3
<1>5. \E k \in Int : x = SignedInteger(w, x) + k * p
  <2>1. CASE r < h
    <3>1. x = SignedInteger(w, x) + q * p
      BY <1>1, <1>2, <1>3, <2>1
    <3> QED
      BY <1>3, <3>1
  <2>2. CASE ~ (r < h)
    <3>1. x = SignedInteger(w, x) + (q + 1) * p
      BY <1>1, <1>2, <1>3, <1>4, <2>2
    <3> QED
      BY <1>4, <3>1
  <2> QED
    BY <2>1, <2>2
<1>6. SignedInteger(w, x) \in Int /\ -h <= SignedInteger(w, x) /\ SignedInteger(w, x) < h
  BY <1>1, <1>2, <1>3
<1> QED
  BY <1>5, <1>6 DEF Holds, Congruent, p, h

\* A number in the range of a width survives being stored in it.
LEMMA SignedWraps ==
    ASSUME NEW w \in Nat, w > 0, NEW z, Holds(w, z)
    PROVE  z % 2^w \in Word(w) /\ SignedInteger(w, z % 2^w) = z
<1> DEFINE p == 2^w
           q == z \div p
           r == z % p
<1>1. p \in Nat /\ p > 0 /\ z \in Int
  BY TopBit DEF Holds
<1>2. q \in Int /\ r \in 0 .. p - 1 /\ z = q * p + r
  <2> HIDE DEF p
  <2> QED
    BY <1>1
<1> HIDE DEF q, r, p
<1>3. -q \in Int /\ r \in Int /\ r = z + (-q) * p
  BY <1>1, <1>2
<1>4. SignedInteger(w, r) = z
  BY <1>1, <1>3, SignedUnique DEF p, Congruent
<1> QED
  BY <1>2, <1>4 DEF Word, p, r

LEMMA HoldsMore ==
    ASSUME NEW m \in Nat, NEW n \in Nat, m > 0, m <= n, NEW z, Holds(m, z)
    PROVE  Holds(n, z)
<1>1. m - 1 \in Nat /\ n - 1 \in Nat /\ m - 1 <= n - 1
  OBVIOUS
<1>2. 2^(m - 1) <= 2^(n - 1) /\ 2^(m - 1) \in Nat /\ 2^(n - 1) \in Nat
  BY <1>1, PowersGrow, PowerStep
<1> QED
  BY <1>2 DEF Holds

\* A number below 2^n is non-negative in one bit more.
LEMMA HoldsUnsigned ==
    ASSUME NEW n \in Nat, NEW x \in Nat, x < 2^n
    PROVE  Holds(n + 1, x)
<1>1. (n + 1) - 1 = n /\ 2^n \in Nat
  BY PowerStep
<1> QED
  BY <1>1 DEF Holds

\* Where no bit reaches the sign, a word is read as itself.
LEMMA SignedOfSmall ==
    ASSUME NEW w \in Nat, NEW n \in Nat, n < w, NEW x \in Nat, x < 2^n
    PROVE  x \in Word(w) /\ SignedInteger(w, x) = x
<1>1. n + 1 \in Nat /\ n + 1 > 0 /\ n + 1 <= w /\ w > 0
  OBVIOUS
<1>2. Holds(w, x)
  BY <1>1, HoldsUnsigned, HoldsMore
<1>3. Congruent(w, x, x)
  <2> DEFINE p == 2^w
  <2>1. p \in Int
    BY PowerStep
  <2> HIDE DEF p
  <2>2. x = x + 0 * p
    BY <2>1
  <2> QED
    BY <2>2 DEF Congruent, p
<1>4. SignedInteger(w, x) = x
  BY <1>1, <1>2, <1>3, SignedUnique
<1>5. 2^n <= 2^w /\ 2^n \in Nat /\ 2^w \in Nat
  BY PowersGrow, PowerStep
<1> QED
  BY <1>4, <1>5 DEF Word

\* A word that needs no more than n signed bits is read alike in n bits.
LEMMA SignedOfNarrow ==
    ASSUME NEW w \in Nat, NEW n \in Nat, n > 0, n <= w, NEW x \in Word(w),
           Holds(n, SignedInteger(w, x))
    PROVE  SignedInteger(n, x) = SignedInteger(w, x)
<1> DEFINE z == SignedInteger(w, x)
<1>1. w > 0 /\ x \in Int
  BY DEF Word
<1>2. PICK k \in Int : x = z + k * 2^w /\ z \in Int
  BY <1>1, SignedCongruent DEF Congruent
<1> HIDE DEF z
<1>3. w - n \in Nat /\ n + (w - n) = w
  OBVIOUS
<1> DEFINE p == 2^n
           q == 2^(w - n)
<1>4. 2^w = p * q /\ p \in Nat /\ q \in Nat
  BY <1>3, PowersAdd, PowerStep
<1> HIDE DEF p, q
<1>5. k * (p * q) = (k * q) * p /\ k * q \in Int
  BY <1>2, <1>4
<1>6. x = z + (k * q) * p
  BY <1>2, <1>4, <1>5
<1>7. Holds(n, z)
  BY DEF z
<1>8. SignedInteger(n, x) = z
  BY <1>1, <1>2, <1>5, <1>6, <1>7, SignedUnique DEF p, Congruent
<1> QED
  BY <1>8 DEF z

-----------------------------------------------------------------------------
(***************************************************************************)
(* Bits that suffice for a word.                                           *)
(***************************************************************************)
Valid(t, bits) == bits \in [unsigned : 1 .. t, signed : 1 .. t] /\ ValidBits(t, bits)

Suffices(bits, t, x) == x < 2^bits.unsigned /\ Holds(bits.signed, SignedInteger(t, x))

LEMMA SufficesIsFits ==
    ASSUME NEW t \in Nat, t > 0, NEW x \in Word(t), NEW bits
    PROVE  Fits(x, t, bits) <=> Suffices(bits, t, x)
<1>1. SignedInteger(t, x) \in Int
  BY SignedOfWord DEF Holds
<1> QED
  BY <1>1 DEF Fits, Suffices, Holds

LEMMA ClampIsValid ==
    ASSUME NEW t \in Nat, t > 0, NEW u \in Int, NEW s \in Int
    PROVE  Valid(t, ClampRequiredBits(t, u, s))
BY DEF Valid, ValidBits, ClampRequiredBits, Bits, Least, Greatest

\* Clamping needs only those bounds that are below the width to hold.
LEMMA ClampSuffices ==
    ASSUME NEW t \in Nat, t > 0, NEW u \in Int, NEW s \in Int, NEW x \in Word(t),
           u < t => x < 2^Greatest(1, u),
           s < t => Holds(Greatest(1, s), SignedInteger(t, x))
    PROVE  Suffices(ClampRequiredBits(t, u, s), t, x)
<1> DEFINE c == Least(t, Greatest(1, u))
           d == Least(t, Greatest(1, s))
           e == Least(d, c + 1)
           z == SignedInteger(t, x)
<1>1. ClampRequiredBits(t, u, s) = [unsigned |-> c, signed |-> e]
  BY DEF ClampRequiredBits, Bits
<1>2. /\ c \in 1 .. t /\ d \in 1 .. t /\ e \in 1 .. t
      /\ c = t \/ (u < t /\ c = Greatest(1, u))
      /\ d = t \/ (s < t /\ d = Greatest(1, s))
      /\ e = d \/ (e = c + 1 /\ c < t)
  BY DEF Least, Greatest
<1>3. x < 2^c
  BY <1>2 DEF Word
<1>4. Holds(d, z)
  BY <1>2, SignedOfWord
<1> HIDE DEF c, d, e
<1>5. Holds(e, z)
  <2>1. CASE e = d
    BY <1>4, <2>1
  <2>2. CASE e = c + 1 /\ c < t
    <3>1. c \in Nat /\ x \in Nat
      BY <1>2 DEF Word
    <3>2. z = x
      BY <1>3, <2>2, <3>1, SignedOfSmall
    <3> QED
      BY <1>3, <2>2, <3>1, <3>2, HoldsUnsigned
  <2> QED
    BY <1>2, <2>1, <2>2
<1> QED
  BY <1>1, <1>3, <1>5 DEF Suffices, z

LEMMA UnknownSuffices ==
    ASSUME NEW t \in Nat, t > 0
    PROVE  /\ Valid(t, UnknownRequiredBits(t))
           /\ \A x \in Word(t) : Suffices(UnknownRequiredBits(t), t, x)
<1>1. Valid(t, UnknownRequiredBits(t))
  BY DEF Valid, ValidBits, UnknownRequiredBits, Bits, Least
<1>2. ASSUME NEW x \in Word(t)
      PROVE  Suffices(UnknownRequiredBits(t), t, x)
  BY SignedOfWord DEF Suffices, UnknownRequiredBits, Bits, Word
<1> QED
  BY <1>1, <1>2

\* Zeros above bit n.
LEMMA ZeroExtensionSuffices ==
    ASSUME NEW t \in Nat, t > 0, NEW n \in Int
    PROVE  /\ Valid(t, ZeroExtendedRequiredBits(t, n))
           /\ \A x \in Word(t) : (n < t => x < 2^Greatest(1, n))
                 => Suffices(ZeroExtendedRequiredBits(t, n), t, x)
<1>1. t \in Int
  OBVIOUS
<1> QED
  BY <1>1, ClampIsValid, ClampSuffices DEF ZeroExtendedRequiredBits

\* A greater bound suffices, too.
LEMMA MoreBitsSuffice ==
    ASSUME NEW t \in Nat, t > 0, NEW x \in Word(t), NEW a, NEW b, Valid(t, a), Valid(t, b),
           Suffices(a, t, x), a.unsigned <= b.unsigned, a.signed <= b.signed
    PROVE  Suffices(b, t, x)
<1>1. /\ a.unsigned \in Nat /\ b.unsigned \in Nat
      /\ a.signed \in Nat /\ a.signed > 0 /\ b.signed \in Nat
  BY DEF Valid
<1>2. 2^a.unsigned <= 2^b.unsigned /\ 2^a.unsigned \in Nat /\ 2^b.unsigned \in Nat
  BY <1>1, PowersGrow, PowerStep
<1>3. x < 2^b.unsigned
  BY <1>2 DEF Suffices, Word
<1>4. Holds(b.signed, SignedInteger(t, x))
  BY <1>1, HoldsMore DEF Suffices
<1> QED
  BY <1>3, <1>4 DEF Suffices

\* The greatest of some bounds.
LEMMA GreatestBound ==
    ASSUME NEW t \in Nat, NEW S, S \subseteq 1 .. t, S # {}
    PROVE  Max(S) \in S /\ \A n \in S : n <= Max(S)
<1> DEFINE D == {t - n : n \in S}
<1>1. D \in SUBSET Nat /\ D # {}
  <2>1. \A n \in S : t - n \in Nat
    OBVIOUS
  <2>2. PICK n \in S : TRUE
    OBVIOUS
  <2>3. t - n \in D
    BY <2>2
  <2> QED
    BY <2>1, <2>3
<1>2. PICK d \in D : \A y \in D : d <= y
  BY <1>1, LeastNatural
<1>3. PICK m \in S : d = t - m
  BY <1>2
<1>4. \A n \in S : m >= n
  <2>1. ASSUME NEW n \in S
        PROVE  m >= n
    <3>1. t - n \in D
      OBVIOUS
    <3> QED
      BY <1>2, <1>3, <3>1
  <2> QED
    BY <2>1
<1> QED
  BY <1>3, <1>4 DEF Max

LEMMA JoinSuffices ==
    ASSUME NEW t \in Nat, t > 0, NEW joined, \A b \in joined : Valid(t, b)
    PROVE  /\ Valid(t, JoinRequiredBits(t, joined))
           /\ \A x \in Word(t), b \in joined :
                 Suffices(b, t, x) => Suffices(JoinRequiredBits(t, joined), t, x)
<1>1. CASE joined = {}
  BY <1>1, UnknownSuffices DEF JoinRequiredBits
<1>2. CASE joined # {}
  <2> DEFINE U == {b.unsigned : b \in joined}
             S == {b.signed : b \in joined}
             j == JoinRequiredBits(t, joined)
  <2>1. j = [unsigned |-> Max(U), signed |-> Max(S)]
    BY <1>2 DEF JoinRequiredBits, Bits
  <2>2. U \subseteq 1 .. t /\ S \subseteq 1 .. t /\ U # {} /\ S # {}
    BY <1>2 DEF Valid
  <2>3. /\ Max(U) \in U /\ \A n \in U : n <= Max(U)
        /\ Max(S) \in S /\ \A n \in S : n <= Max(S)
    <3> HIDE DEF U, S
    <3> QED
      BY <2>2, GreatestBound
  <2> DEFINE u == Max(U)
             s == Max(S)
  <2>4. Valid(t, j)
    <3>1. PICK b \in joined : b.signed = s
      BY <2>3
    <3>2. b.unsigned <= u /\ b.signed <= t /\ b.signed <= b.unsigned + 1 /\ b.unsigned \in 1 .. t
      BY <2>3 DEF Valid, ValidBits, Least
    <3>3. u \in 1 .. t /\ s \in 1 .. t
      BY <2>2, <2>3
    <3> HIDE DEF u, s, j
    <3>4. j = [unsigned |-> u, signed |-> s]
      BY <2>1 DEF u, s
    <3> QED
      BY <3>1, <3>2, <3>3, <3>4 DEF Valid, ValidBits, Least
  <2>5. ASSUME NEW x \in Word(t), NEW b \in joined, Suffices(b, t, x)
        PROVE  Suffices(j, t, x)
    <3>1. b.unsigned <= j.unsigned /\ b.signed <= j.signed
      BY <2>1, <2>3
    <3> HIDE DEF j
    <3> QED
      BY <2>4, <2>5, <3>1, MoreBitsSuffice
  <2> QED
    BY <2>4, <2>5
<1> QED
  BY <1>1, <1>2

-----------------------------------------------------------------------------
(***************************************************************************)
(* Constants and extensions.                                               *)
(***************************************************************************)
LEMMA WidthFacts ==
    /\ I32 \in Nat /\ I32 \in 4 .. 32 /\ I64 \in Nat /\ I64 \in 8 .. 64 /\ I64 = 2 * I32
    /\ I32 > 0 /\ I64 > 0 /\ I32 < I64
    /\ Narrow \subseteq 1 .. I32 - 1
<1>1. PICK n \in 2 .. 5 : I32 = 2^n
  BY WidthAssumption
<1>2. I32 \in {4, 8, 16, 32}
  <2>1. n = 2 \/ n = 3 \/ n = 4 \/ n = 5
    OBVIOUS
  <2>2. I32 = 2^2 \/ I32 = 2^3 \/ I32 = 2^4 \/ I32 = 2^5
    BY <1>1, <2>1, Zenon
  <2> QED
    BY <2>2
<1> QED
  BY <1>2, WidthAssumption

\* The bit length of a number that has at most n bits.
LEMMA BitLengthIs ==
    ASSUME NEW n \in Nat, n <= I64, NEW x \in Nat, x < 2^n
    PROVE  /\ BitLength(x) \in 0 .. n
           /\ x < 2^BitLength(x)
           /\ BitLength(x) = 0 \/ 2^(BitLength(x) - 1) <= x
<1> DEFINE P(k) == x < 2^k /\ (k = 0 \/ 2^(k - 1) <= x)
           T == {k \in Nat : x < 2^k}
           b == BitLength(x)
<1>1. n \in T /\ T \in SUBSET Nat /\ T # {}
  OBVIOUS
<1>2. PICK k \in T : \A y \in T : k <= y
  <2> HIDE DEF T
  <2> QED
    BY <1>1, LeastNatural
<1>3. k = 0 \/ 2^(k - 1) <= x
  <2> SUFFICES ASSUME k # 0
               PROVE  2^(k - 1) <= x
    OBVIOUS
  <2>1. k - 1 \in Nat
    BY <1>2
  <2>2. k - 1 \notin T
    BY <1>2, <2>1
  <2> QED
    BY <2>1, <2>2, PowerStep
<1>4. k \in 0 .. I64 /\ P(k)
  BY <1>1, <1>2, <1>3, WidthFacts
<1>5. b \in 0 .. I64 /\ P(b)
  BY <1>4 DEF BitLength
<1> HIDE DEF b, T
<1>6. b <= n
  <2> SUFFICES ASSUME b > n
               PROVE  FALSE
    BY <1>5
  <2>1. b \in Nat /\ b - 1 \in Nat /\ n <= b - 1
    BY <1>5
  <2>2. 2^n <= 2^(b - 1) /\ 2^n \in Nat /\ 2^(b - 1) \in Nat
    BY <2>1, PowersGrow, PowerStep
  <2> QED
    BY <1>5, <2>1, <2>2
<1> QED
  BY <1>5, <1>6 DEF b

LEMMA ConstantSuffices ==
    ASSUME NEW t \in Nat, t > 0, t <= I64, NEW x \in Word(t)
    PROVE  /\ Valid(t, ConstantRequiredBits(t, x))
           /\ Suffices(ConstantRequiredBits(t, x), t, x)
<1> DEFINE z == SignedInteger(t, x)
           m == IF z < 0 THEN -z - 1 ELSE z
           a == BitLength(x)
           b == BitLength(m)
           h == 2^(t - 1)
           u == Greatest(1, a)
<1>1. ConstantRequiredBits(t, x) = [unsigned |-> u, signed |-> Least(t, b + 1)]
  BY DEF ConstantRequiredBits, Bits
<1>2. /\ 2^t \in Nat /\ h \in Nat /\ h > 0 /\ 2^t = 2 * h /\ x \in Nat /\ x < 2^t
      /\ t - 1 \in Nat /\ t - 1 <= I64
  BY TopBit, WidthFacts DEF Word
<1>3. z \in Int /\ -h <= z /\ z < h /\ z = IF x < h THEN x ELSE x - 2^t
  BY SignedOfWord DEF Holds
<1>4. m \in Nat /\ m < h
  <2> HIDE DEF z, h
  <2> QED
    BY <1>2, <1>3
<1>5. a \in 0 .. t /\ x < 2^a /\ (a = 0 \/ 2^(a - 1) <= x)
  BY <1>2, BitLengthIs
<1> HIDE DEF a
<1>6. b \in 0 .. t - 1 /\ m < 2^b
  <2> HIDE DEF m
  <2> QED
    BY <1>2, <1>4, BitLengthIs DEF h
<1>7. u \in 1 .. t /\ u >= a /\ x < 2^u
  <2>1. u \in 1 .. t /\ u >= a /\ u \in Nat /\ a \in Nat
    BY <1>5 DEF Greatest
  <2> HIDE DEF u
  <2>2. 2^a <= 2^u /\ 2^a \in Nat /\ 2^u \in Nat
    BY <2>1, PowersGrow, PowerStep
  <2> QED
    BY <1>2, <1>5, <2>1, <2>2
<1>8. Least(t, b + 1) = b + 1
  <2> HIDE DEF b
  <2> QED
    BY <1>6 DEF Least
<1>9. Holds(b + 1, z)
  <2> DEFINE p == 2^b
  <2>1. p \in Nat /\ (b + 1) - 1 = b /\ m < p
    BY <1>6, PowerStep
  <2> HIDE DEF p, z, b
  <2>2. z \in Int /\ -p <= z /\ z < p
    BY <1>3, <2>1
  <2> QED
    BY <2>1, <2>2 DEF Holds, p
<1>10. b <= u
  <2>1. CASE z < 0
    <3>1. x >= h
      BY <1>2, <1>3, <2>1
    <3>2. a = t
      <4> SUFFICES ASSUME a < t
                   PROVE  FALSE
        BY <1>5
      <4>1. a \in Nat /\ a <= t - 1
        BY <1>5
      <4>2. 2^a <= h /\ 2^a \in Nat
        BY <1>2, <4>1, PowersGrow, PowerStep
      <4> HIDE DEF h
      <4> QED
        BY <1>2, <1>5, <3>1, <4>2
    <3> HIDE DEF b, u
    <3> QED
      BY <1>6, <1>7, <3>2
  <2>2. CASE ~ (z < 0)
    <3>1. m = x
      <4> HIDE DEF z, h
      <4> QED
        BY <1>2, <1>3, <2>2
    <3>2. b = a
      BY <3>1 DEF a
    <3> HIDE DEF b, u
    <3> QED
      BY <1>7, <3>2, <1>5
  <2> QED
    BY <2>1, <2>2
<1> DEFINE c == ConstantRequiredBits(t, x)
<1>11. c.unsigned = u /\ c.signed = b + 1 /\ c = [unsigned |-> u, signed |-> b + 1]
  BY <1>1, <1>8
<1> HIDE DEF b, u, c, z
<1>12. Valid(t, c)
  BY <1>6, <1>7, <1>10, <1>11 DEF Valid, ValidBits, Least
<1> QED
  BY <1>7, <1>9, <1>11, <1>12 DEF Suffices, c, z

LEMMA SmallRemainder ==
    ASSUME NEW t \in Nat, NEW x \in Word(t)
    PROVE  x % 2^t = x
<1> DEFINE p == 2^t
<1>1. p \in Nat /\ p > 0 /\ x \in 0 .. p - 1
  BY PowerStep DEF Word
<1> HIDE DEF p
<1>2. x = 0 * p + x
  BY <1>1
<1>3. x % p = x
  BY <1>1, <1>2, UniqueRemainder
<1> QED
  BY <1>3 DEF p

LEMMA SignExtensionSuffices ==
    ASSUME NEW w \in Nat, NEW st \in Nat, NEW t \in Nat, 0 < w, w <= st, st <= t,
           NEW x \in Word(st), NEW bits, Valid(st, bits), Suffices(bits, st, x)
    PROVE  /\ SignedInteger(w, x) % 2^t \in Word(t)
           /\ Valid(t, ExtendRequiredBits(t, w, bits, "sign"))
           /\ Suffices(ExtendRequiredBits(t, w, bits, "sign"), t, SignedInteger(w, x) % 2^t)
<1> DEFINE u == bits.unsigned
           s == bits.signed
           z == SignedInteger(w, x)
           r == z % 2^t
           e == ExtendRequiredBits(t, w, bits, "sign")
<1>1. /\ u \in Nat /\ u > 0 /\ s \in Nat /\ s > 0 /\ x \in Nat /\ x \in Int
      /\ st > 0 /\ t > 0 /\ t \in Int
  BY DEF Valid, Word
<1>2. x < 2^u /\ Holds(s, SignedInteger(st, x))
  BY DEF Suffices
<1>3. Holds(w, z) /\ Holds(t, z)
  <2>1. Holds(w, z)
    BY <1>1, SignedCongruent
  <2> HIDE DEF z
  <2> QED
    BY <2>1, HoldsMore
<1>4. r \in Word(t) /\ SignedInteger(t, r) = z
  <2> HIDE DEF z
  <2> QED
    BY <1>1, <1>3, SignedWraps
<1>5. CASE u < w
  <2>1. e = ClampRequiredBits(t, u, s)
    BY <1>1, <1>5 DEF ExtendRequiredBits
  <2>2. z = x /\ SignedInteger(st, x) = x
    <3>1. u < st
      BY <1>1, <1>5
    <3> HIDE DEF u, s
    <3> QED
      BY <1>1, <1>2, <1>5, <3>1, SignedOfSmall
  <2>3. x \in Word(t)
    <3>1. u < t
      BY <1>1, <1>5
    <3> HIDE DEF u, s
    <3> QED
      BY <1>1, <1>2, <3>1, SignedOfSmall
  <2>4. r = x
    BY <2>2, <2>3, SmallRemainder
  <2>5. Greatest(1, u) = u /\ Greatest(1, s) = s
    <3> HIDE DEF u, s
    <3> QED
      BY <1>1 DEF Greatest
  <2>6. Valid(t, e)
    <3> HIDE DEF e, u, s
    <3> QED
      BY <1>1, <2>1, ClampIsValid
  <2>7. Suffices(e, t, r)
    <3>1. u < t => r < 2^Greatest(1, u)
      BY <1>2, <2>4, <2>5
    <3>2. s < t => Holds(Greatest(1, s), SignedInteger(t, r))
      BY <1>2, <1>4, <2>2, <2>5
    <3>3. u \in Int /\ s \in Int
      BY <1>1
    <3> HIDE DEF e, u, s, r
    <3> QED
      BY <1>1, <1>4, <2>1, <3>1, <3>2, <3>3, ClampSuffices
  <2> QED
    BY <1>4, <2>6, <2>7
<1>6. CASE ~ (u < w)
  <2> DEFINE n == Least(w, s)
  <2>1. e = ClampRequiredBits(t, t, n)
    BY <1>1, <1>6 DEF ExtendRequiredBits, SignExtendedRequiredBits
  <2>2. n \in Nat /\ n > 0 /\ n \in Int /\ Greatest(1, n) = n /\ (n = w \/ (n = s /\ s < w))
    <3> HIDE DEF s
    <3> QED
      BY <1>1 DEF Least, Greatest
  <2>3. Holds(n, z)
    <3>1. CASE n = w
      BY <1>3, <3>1
    <3>2. CASE n = s /\ s < w
      <4>1. s <= w
        BY <1>1, <3>2
      <4>2. Holds(w, SignedInteger(st, x))
        <5> HIDE DEF s
        <5> QED
          BY <1>1, <1>2, <4>1, HoldsMore
      <4>3. z = SignedInteger(st, x)
        <5> HIDE DEF s
        <5> QED
          BY <1>1, <4>2, SignedOfNarrow
      <4> QED
        BY <1>2, <3>2, <4>3
    <3> QED
      BY <2>2, <3>1, <3>2
  <2>4. Valid(t, e)
    <3> HIDE DEF e, n
    <3> QED
      BY <1>1, <2>1, <2>2, ClampIsValid
  <2>5. Suffices(e, t, r)
    <3>1. t < t => r < 2^Greatest(1, t)
      OBVIOUS
    <3>2. n < t => Holds(Greatest(1, n), SignedInteger(t, r))
      BY <1>4, <2>2, <2>3
    <3> HIDE DEF e, n, r
    <3> QED
      BY <1>1, <1>4, <2>1, <2>2, <3>1, <3>2, ClampSuffices
  <2> QED
    BY <1>4, <2>4, <2>5
<1> QED
  BY <1>5, <1>6

LEMMA WrapSuffices ==
    ASSUME NEW n \in Nat, NEW t \in Nat, 0 < n, n <= t, NEW x \in Word(t),
           NEW bits, Valid(t, bits), Suffices(bits, t, x)
    PROVE  /\ x % 2^n \in Word(n)
           /\ Valid(n, TruncateRequiredBits(n, bits))
           /\ Suffices(TruncateRequiredBits(n, bits), n, x % 2^n)
<1> DEFINE u == bits.unsigned
           s == bits.signed
           r == x % 2^n
<1>1. /\ u \in Nat /\ u > 0 /\ u \in Int /\ s \in Nat /\ s > 0 /\ s \in Int
      /\ x \in Nat /\ x \in Int /\ t > 0
  BY DEF Valid, Word
<1>2. x < 2^u /\ Holds(s, SignedInteger(t, x))
  BY DEF Suffices
<1>3. r \in Word(n)
  <2> DEFINE p == 2^n
  <2>1. p \in Nat /\ p > 0
    BY PowerStep
  <2> HIDE DEF p
  <2>2. x % p \in 0 .. p - 1
    BY <1>1, <2>1
  <2> QED
    BY <2>2 DEF p, Word
<1>4. Greatest(1, u) = u /\ Greatest(1, s) = s
  <2> HIDE DEF u, s
  <2> QED
    BY <1>1 DEF Greatest
<1>5. u < n => r < 2^Greatest(1, u)
  <2> SUFFICES ASSUME u < n
               PROVE  r = x
    BY <1>2, <1>4
  <2>1. x \in Word(n)
    <3> HIDE DEF u
    <3> QED
      BY <1>1, <1>2, SignedOfSmall
  <2> QED
    BY <2>1, SmallRemainder
<1>6. s < n => Holds(Greatest(1, s), SignedInteger(n, r))
  <2> SUFFICES ASSUME s < n
               PROVE  SignedInteger(n, r) = SignedInteger(t, x)
    BY <1>2, <1>4
  <2>1. s <= n
    BY <1>1
  <2>2. Holds(n, SignedInteger(t, x))
    <3> HIDE DEF s
    <3> QED
      BY <1>1, <1>2, <2>1, HoldsMore
  <2>3. SignedInteger(n, x) = SignedInteger(t, x)
    BY <1>1, <2>2, SignedOfNarrow
  <2>4. r % 2^n = r
    BY <1>3, SmallRemainder
  <2>5. SignedInteger(n, r) = SignedInteger(n, x)
    BY <2>4 DEF SignedInteger
  <2> QED
    BY <2>3, <2>5
<1>7. TruncateRequiredBits(n, bits) = ClampRequiredBits(n, u, s)
  BY DEF TruncateRequiredBits
<1> HIDE DEF u, s, r
<1>8. Suffices(ClampRequiredBits(n, u, s), n, r)
  BY <1>1, <1>3, <1>5, <1>6, ClampSuffices
<1> QED
  BY <1>1, <1>3, <1>7, <1>8, ClampIsValid DEF r

LEMMA PowersExceed == \A n \in Nat : n < 2^n
<1> SUFFICES ASSUME NEW n \in Nat
             PROVE  n < 2^n
  OBVIOUS
<1> DEFINE S == {k \in 0 .. n : k < 2^k}
<1>1. 0 \in S
  OBVIOUS
<1>2. ASSUME NEW k \in 0 .. n - 1, k \in S
      PROVE  k + 1 \in S
  <2>1. 2^k \in Nat /\ 2^(k + 1) = 2 * 2^k /\ k < 2^k
    BY <1>2, PowerStep
  <2>2. k + 1 < 2^(k + 1)
    BY <2>1
  <2> QED
    BY <2>2
<1> HIDE DEF S
<1>3. n \in S
  BY <1>1, <1>2, ReachesAll
<1> QED
  BY <1>3 DEF S

\* The highest bit of a word that is not zero is set.
LEMMA HighestBit ==
    ASSUME NEW t \in Nat, t <= I64, NEW x \in Word(t), x # 0
    PROVE  BitLength(x) - 1 \in 0 .. t - 1 /\ WordBit(x, BitLength(x) - 1) = 1
<1> DEFINE b == BitLength(x)
           i == b - 1
           p == 2^i
<1>1. x \in Nat /\ x > 0 /\ 2^t \in Nat /\ x < 2^t
  BY PowerStep DEF Word
<1>2. b \in 0 .. t /\ x < 2^b /\ (b = 0 \/ p <= x)
  BY <1>1, BitLengthIs
<1> HIDE DEF b
<1>3. b # 0
  <2> SUFFICES ASSUME b = 0
               PROVE  FALSE
    OBVIOUS
  <2>1. 2^b = 1
    BY PowerStep, Zenon
  <2> QED
    BY <1>1, <1>2, <2>1
<1>4. i \in Nat /\ i \in 0 .. t - 1 /\ i + 1 = b
  BY <1>2, <1>3
<1>5. p \in Nat /\ p > 0 /\ 2^(i + 1) = 2 * p
  BY <1>4, PowerStep
<1> HIDE DEF p, i
<1>6. x = 1 * p + (x - p) /\ x - p \in 0 .. p - 1
  BY <1>1, <1>2, <1>3, <1>4, <1>5
<1>7. x \div p = 1
  BY <1>1, <1>5, <1>6, UniqueQuotient
<1>8. WordBit(x, i) = 1
  BY <1>7 DEF WordBit, p
<1> QED
  BY <1>4, <1>8 DEF b, i

LEMMA BitCountRange ==
    ASSUME NEW t \in Nat, t <= I64, NEW x \in Word(t), NEW operator \in BitCounts
    PROVE  EvaluateBitCount(operator, t, x) \in 0 .. t
<1> DEFINE ones == {i \in 0 .. t - 1 : (x \div 2^i) % 2 = 1}
<1>1. CASE operator = "popcnt"
  <2>1. IsFiniteSet(0 .. t - 1) /\ Cardinality(0 .. t - 1) = t
    <3>1. 0 \in Int /\ t - 1 \in Int /\ (t - 1) - 0 + 1 = t
      OBVIOUS
    <3>2. IsFiniteSet(0 .. t - 1) /\ Cardinality(0 .. t - 1) = IF 0 > t - 1 THEN 0 ELSE (t - 1) - 0 + 1
      BY <3>1, FS_Interval
    <3> QED
      BY <3>2
  <2>2. ones \subseteq 0 .. t - 1
    OBVIOUS
  <2> HIDE DEF ones
  <2>3. IsFiniteSet(ones) /\ Cardinality(ones) <= t
    BY <2>1, <2>2, FS_Subset
  <2>4. Cardinality(ones) \in Nat
    BY <2>3, FS_CardinalityType
  <2>5. EvaluateBitCount(operator, t, x) = Cardinality(ones)
    BY <1>1 DEF EvaluateBitCount, ones
  <2> QED
    BY <2>3, <2>4, <2>5
<1>2. CASE operator = "ctz" /\ x = 0
  BY <1>2 DEF EvaluateBitCount
<1>3. CASE operator = "ctz" /\ x # 0
  <2>1. ones \in SUBSET Nat
    OBVIOUS
  <2>2. BitLength(x) - 1 \in ones
    BY <1>3, HighestBit DEF WordBit
  <2>3. EvaluateBitCount(operator, t, x) = CHOOSE i \in ones : \A j \in ones : i <= j
    BY <1>3 DEF EvaluateBitCount
  <2>4. ones \subseteq 0 .. t
    OBVIOUS
  <2> HIDE DEF ones
  <2>5. \E i \in ones : \A j \in ones : i <= j
    BY <2>1, <2>2, LeastNatural
  <2>6. (CHOOSE i \in ones : \A j \in ones : i <= j) \in ones
    BY <2>5
  <2> QED
    BY <2>3, <2>4, <2>6
<1>4. CASE operator = "clz"
  <2>1. x \in Nat /\ x < 2^t
    BY PowerStep DEF Word
  <2>2. BitLength(x) \in 0 .. t
    BY <2>1, BitLengthIs
  <2>3. EvaluateBitCount(operator, t, x) = t - BitLength(x)
    BY <1>4 DEF EvaluateBitCount
  <2> QED
    BY <2>2, <2>3
<1> QED
  BY <1>1, <1>2, <1>3, <1>4 DEF BitCounts

LEMMA BitCountSuffices ==
    ASSUME NEW t \in Nat, t > 0, t <= I64, NEW x \in Word(t), NEW operator \in BitCounts
    PROVE  /\ EvaluateBitCount(operator, t, x) \in Word(t)
           /\ Valid(t, ZeroExtendedRequiredBits(t, BitLength(t)))
           /\ Suffices(ZeroExtendedRequiredBits(t, BitLength(t)), t, EvaluateBitCount(operator, t, x))
<1> DEFINE r == EvaluateBitCount(operator, t, x)
           b == BitLength(t)
<1>1. r \in 0 .. t
  BY BitCountRange
<1>2. t < 2^t /\ 2^t \in Nat
  BY PowersExceed, PowerStep
<1>3. b \in 0 .. t /\ t < 2^b
  BY <1>2, BitLengthIs
<1>4. b > 0
  <2> SUFFICES ASSUME b = 0
               PROVE  FALSE
    BY <1>3
  <2>1. 2^b = 1
    BY PowerStep, Zenon
  <2> HIDE DEF b
  <2> QED
    BY <1>3, <2>1
<1>5. r \in Word(t)
  BY <1>1, <1>2 DEF Word
<1>6. Greatest(1, b) = b /\ b \in Int
  <2> HIDE DEF b
  <2> QED
    BY <1>3, <1>4 DEF Greatest
<1>7. r < 2^b
  <2> HIDE DEF b, r
  <2>1. 2^b \in Nat
    BY <1>3, PowerStep
  <2> QED
    BY <1>1, <1>3, <2>1
<1> HIDE DEF b, r
<1>8. b < t => r < 2^Greatest(1, b)
  BY <1>6, <1>7
<1> QED
  BY <1>5, <1>6, <1>8, ZeroExtensionSuffices DEF r, b

-----------------------------------------------------------------------------
(***************************************************************************)
(* Words as sequences of bits.                                             *)
(***************************************************************************)
BitsOf(size) == [0 .. size - 1 -> 0 .. 1]

\* f[n] is the number made of the n lowest bits.
IsSum(f, size, bits) ==
    /\ DOMAIN f = 0 .. size
    /\ f[0] = 0
    /\ \A n \in 0 .. size - 1 : f[n + 1] = f[n] + bits[n] * 2^n

LEMMA SumsExist ==
    ASSUME NEW size \in Nat, NEW bits
    PROVE  \E f : IsSum(f, size, bits)
<1> DEFINE S == {k \in 0 .. size : \E f : IsSum(f, k, bits)}
<1>1. 0 \in S
  <2> DEFINE f == [n \in 0 .. 0 |-> 0]
  <2>1. IsSum(f, 0, bits)
    BY DEF IsSum
  <2> QED
    BY <2>1
<1>2. ASSUME NEW k \in 0 .. size - 1, k \in S
      PROVE  k + 1 \in S
  <2>1. PICK h : IsSum(h, k, bits)
    BY <1>2
  <2> DEFINE last == h[k] + bits[k] * 2^k
             f == [n \in 0 .. k + 1 |-> IF n = k + 1 THEN last ELSE h[n]]
  <2>2. DOMAIN f = 0 .. k + 1 /\ f[0] = 0
    BY <2>1 DEF IsSum
  <2>3. ASSUME NEW n \in 0 .. (k + 1) - 1
        PROVE  f[n + 1] = f[n] + bits[n] * 2^n
    <3>1. CASE n = k
      <4>1. f[n + 1] = last /\ f[n] = h[k]
        BY <3>1
      <4> QED
        BY <3>1, <4>1
    <3>2. CASE n # k
      <4>1. n \in 0 .. k - 1 /\ f[n + 1] = h[n + 1] /\ f[n] = h[n]
        BY <3>2
      <4> QED
        BY <2>1, <4>1 DEF IsSum
    <3> QED
      BY <3>1, <3>2
  <2> HIDE DEF f
  <2>4. IsSum(f, k + 1, bits)
    BY <2>2, <2>3 DEF IsSum
  <2> QED
    BY <2>4
<1> HIDE DEF S
<1>3. size \in S
  BY <1>1, <1>2, ReachesAll
<1> QED
  BY <1>3 DEF S

LEMMA FromBitsIsSum ==
    ASSUME NEW size \in Nat, NEW bits
    PROVE  \E f : IsSum(f, size, bits) /\ FromBits(size, bits) = f[size]
<1> DEFINE Body(f) == [n \in 0 .. size |-> IF n = 0 THEN 0 ELSE f[n - 1] + bits[n - 1] * 2^(n - 1)]
<1>1. PICK g : IsSum(g, size, bits)
  BY SumsExist
<1>2. \E f : f = Body(f)
  <2>1. ASSUME NEW n \in 0 .. size
        PROVE  g[n] = IF n = 0 THEN 0 ELSE g[n - 1] + bits[n - 1] * 2^(n - 1)
    <3>1. CASE n = 0
      BY <1>1, <3>1 DEF IsSum
    <3>2. CASE n # 0
      <4>1. n - 1 \in 0 .. size - 1 /\ (n - 1) + 1 = n
        BY <3>2
      <4> QED
        BY <1>1, <3>2, <4>1 DEF IsSum
    <3> QED
      BY <3>1, <3>2
  <2> DEFINE f == [n \in 0 .. size |-> g[n]]
  <2>2. \A n \in 0 .. size : f[n] = IF n = 0 THEN 0 ELSE f[n - 1] + bits[n - 1] * 2^(n - 1)
    BY <2>1
  <2>3. f = Body(f)
    BY <2>2
  <2> HIDE DEF f
  <2> QED
    BY <2>3
<1> DEFINE m == CHOOSE f : f = Body(f)
<1>3. m = Body(m)
  BY <1>2
<1>4. FromBits(size, bits) = m[size]
  BY DEF FromBits
<1> HIDE DEF m
<1>5. IsSum(m, size, bits)
  <2>1. DOMAIN m = 0 .. size /\ m[0] = 0
    BY <1>3
  <2>2. ASSUME NEW n \in 0 .. size - 1
        PROVE  m[n + 1] = m[n] + bits[n] * 2^n
    <3>1. n + 1 \in 0 .. size /\ n + 1 # 0 /\ (n + 1) - 1 = n
      OBVIOUS
    <3> QED
      BY <1>3, <3>1
  <2> QED
    BY <2>1, <2>2 DEF IsSum
<1> QED
  BY <1>4, <1>5

LEMMA SumRange ==
    ASSUME NEW size \in Nat, NEW bits \in BitsOf(size), NEW f, IsSum(f, size, bits)
    PROVE  \A n \in 0 .. size : f[n] \in 0 .. 2^n - 1
<1> DEFINE S == {n \in 0 .. size : f[n] \in 0 .. 2^n - 1}
<1>1. 0 \in S
  BY DEF IsSum
<1>2. ASSUME NEW n \in 0 .. size - 1, n \in S
      PROVE  n + 1 \in S
  <2> DEFINE p == 2^n
  <2>1. p \in Nat /\ 2^(n + 1) = 2 * p /\ f[n] \in 0 .. p - 1
    BY <1>2, PowerStep
  <2>2. f[n + 1] = f[n] + bits[n] * p
    BY DEF IsSum
  <2>3. bits[n] = 0 \/ bits[n] = 1
    BY DEF BitsOf
  <2> HIDE DEF p
  <2>4. bits[n] * p = 0 \/ bits[n] * p = p
    <3>1. 0 * p = 0 /\ 1 * p = p
      BY <2>1
    <3> QED
      BY <2>3, <3>1
  <2>5. f[n + 1] \in 0 .. 2 * p - 1
    BY <2>1, <2>2, <2>4
  <2> QED
    BY <2>1, <2>5
<1> HIDE DEF S
<1>3. 0 .. size \subseteq S
  BY <1>1, <1>2, ReachesAll
<1> QED
  BY <1>3 DEF S

\* Zeros from position u on add nothing.
LEMMA SumOfZeros ==
    ASSUME NEW size \in Nat, NEW bits \in BitsOf(size), NEW f, IsSum(f, size, bits),
           NEW u \in 0 .. size, \A i \in u .. size - 1 : bits[i] = 0
    PROVE  f[size] = f[u]
<1> DEFINE S == {k \in 0 .. size - u : f[u + k] = f[u]}
           l == size - u
<1>1. 0 \in S
  OBVIOUS
<1>2. ASSUME NEW k \in 0 .. l - 1, k \in S
      PROVE  k + 1 \in S
  <2> DEFINE n == u + k
             p == 2^n
  <2>1. n \in u .. size - 1 /\ n \in 0 .. size - 1 /\ u + (k + 1) = n + 1 /\ n \in Nat
    OBVIOUS
  <2>2. p \in Nat /\ f[n] \in 0 .. p - 1
    <3> HIDE DEF n
    <3>1. n \in 0 .. size
      BY <2>1
    <3> QED
      BY <2>1, <3>1, SumRange, PowerStep
  <2>3. f[n + 1] = f[n] + bits[n] * p /\ bits[n] = 0
    BY <2>1 DEF IsSum
  <2> HIDE DEF p
  <2>4. f[n + 1] = f[n]
    BY <2>2, <2>3
  <2> QED
    BY <1>2, <2>1, <2>4
<1>3. l \in Nat /\ u + l = size
  OBVIOUS
<1> HIDE DEF S, l
<1>4. l \in S
  BY <1>1, <1>2, <1>3, ReachesAll
<1> QED
  BY <1>3, <1>4 DEF S

\* Ones from position u on add the difference of two powers.
LEMMA SumOfOnes ==
    ASSUME NEW size \in Nat, NEW bits \in BitsOf(size), NEW f, IsSum(f, size, bits),
           NEW u \in 0 .. size, \A i \in u .. size - 1 : bits[i] = 1
    PROVE  f[size] = f[u] + 2^size - 2^u
<1> DEFINE S == {k \in 0 .. size - u : f[u + k] = f[u] + 2^(u + k) - 2^u}
           l == size - u
<1>0. 2^u \in Nat /\ f[u] \in 0 .. 2^u - 1
  BY SumRange, PowerStep
<1>1. 0 \in S
  <2> DEFINE p == 2^u
  <2>1. f[u] = f[u] + p - p
    <3> HIDE DEF p
    <3> QED
      BY <1>0 DEF p
  <2>2. u + 0 = u
    OBVIOUS
  <2> QED
    BY <2>1, <2>2
<1>2. ASSUME NEW k \in 0 .. l - 1, k \in S
      PROVE  k + 1 \in S
  <2> DEFINE n == u + k
             p == 2^n
             q == 2^u
  <2>1. n \in u .. size - 1 /\ n \in 0 .. size - 1 /\ u + (k + 1) = n + 1 /\ n \in Nat
    OBVIOUS
  <2>2. p \in Nat /\ 2^(n + 1) = 2 * p
    <3> HIDE DEF n
    <3> QED
      BY <2>1, PowerStep
  <2>3. f[n + 1] = f[n] + bits[n] * p /\ bits[n] = 1
    BY <2>1 DEF IsSum
  <2>4. f[n] = f[u] + p - q
    BY <1>2
  <2>5. q \in Nat /\ f[u] \in Int
    BY <1>0
  <2> HIDE DEF p, q
  <2>6. f[n + 1] = f[u] + 2 * p - q
    BY <2>2, <2>3, <2>4, <2>5
  <2> QED
    BY <2>1, <2>2, <2>6 DEF q
<1>3. l \in Nat /\ u + l = size
  OBVIOUS
<1> HIDE DEF S, l
<1>4. l \in S
  BY <1>1, <1>2, <1>3, ReachesAll
<1> QED
  BY <1>3, <1>4 DEF S

LEMMA FromBitsRange ==
    ASSUME NEW size \in Nat, NEW bits \in BitsOf(size)
    PROVE  FromBits(size, bits) \in Word(size)
<1>1. PICK f : IsSum(f, size, bits) /\ FromBits(size, bits) = f[size]
  BY FromBitsIsSum
<1> QED
  BY <1>1, SumRange DEF Word

\* Bits that suffice can be read off the bits that are set.
LEMMA BitsSuffice ==
    ASSUME NEW t \in Nat, t > 0, NEW u \in Nat, u > 0, NEW s \in Nat, s > 0,
           NEW bits \in BitsOf(t),
           u < t => \A i \in u .. t - 1 : bits[i] = 0,
           s < t => \/ \A i \in s - 1 .. t - 1 : bits[i] = 0
                    \/ \A i \in s - 1 .. t - 1 : bits[i] = 1
    PROVE  Suffices(ClampRequiredBits(t, u, s), t, FromBits(t, bits))
<1>1. PICK f : IsSum(f, t, bits) /\ FromBits(t, bits) = f[t]
  BY FromBitsIsSum
<1> DEFINE x == f[t]
<1>2. x \in Word(t)
  BY <1>1, FromBitsRange
<1>3. ASSUME NEW v \in 0 .. t, \A i \in v .. t - 1 : bits[i] = 0
      PROVE  x < 2^v /\ x \in Nat
  <2>1. x = f[v] /\ f[v] \in 0 .. 2^v - 1 /\ v \in Nat
    BY <1>1, <1>3, SumOfZeros, SumRange
  <2> QED
    BY <2>1, PowerStep
<1>4. u < t => x < 2^u
  BY <1>3
<1> HIDE DEF x
<1>5. ASSUME s < t
      PROVE  Holds(s, SignedInteger(t, x))
  <2> DEFINE n == s - 1
  <2>1. n \in Nat /\ n \in 0 .. t /\ n + 1 = s /\ s <= t /\ n < t
    BY <1>5
  <2>2. CASE \A i \in n .. t - 1 : bits[i] = 0
    <3> HIDE DEF n
    <3>1. x < 2^n /\ x \in Nat
      BY <1>3, <2>1, <2>2
    <3>2. SignedInteger(t, x) = x
      BY <2>1, <3>1, SignedOfSmall
    <3>3. Holds(n + 1, x)
      BY <2>1, <3>1, HoldsUnsigned
    <3> QED
      BY <2>1, <3>2, <3>3
  <2>3. CASE \A i \in n .. t - 1 : bits[i] = 1
    <3> DEFINE p == 2^t
               h == 2^n
               z == f[n] - h
    <3>1. f[n] \in 0 .. h - 1 /\ h \in Nat /\ p \in Nat
      <4> HIDE DEF n
      <4> QED
        BY <1>1, <2>1, SumRange, PowerStep
    <3>2. x = f[n] + p - h
      <4> HIDE DEF n
      <4> QED
        BY <1>1, <2>1, <2>3, SumOfOnes DEF x
    <3> HIDE DEF p, h
    <3>3. x = z + 1 * p /\ z \in Int /\ -h <= z /\ z < h /\ x \in Int
      BY <3>1, <3>2
    <3> HIDE DEF z
    <3>4. Holds(s, z)
      BY <3>3 DEF Holds, h
    <3>5. Holds(t, z)
      BY <2>1, <3>4, HoldsMore
    <3>6. Congruent(t, x, z)
      BY <3>3 DEF Congruent, p
    <3>7. SignedInteger(t, x) = z
      BY <3>5, <3>6, SignedUnique
    <3> QED
      BY <3>4, <3>7
  <2> QED
    BY <1>5, <2>2, <2>3
<1>6. Greatest(1, u) = u /\ Greatest(1, s) = s /\ u \in Int /\ s \in Int
  BY DEF Greatest
<1>7. /\ u < t => x < 2^Greatest(1, u)
      /\ s < t => Holds(Greatest(1, s), SignedInteger(t, x))
  BY <1>4, <1>5, <1>6
<1>8. Suffices(ClampRequiredBits(t, u, s), t, x)
  BY <1>2, <1>6, <1>7, ClampSuffices
<1> QED
  BY <1>1, <1>8 DEF x

LEMMA BitIsBit ==
    ASSUME NEW x \in Int, NEW i \in Nat
    PROVE  WordBit(x, i) \in 0 .. 1
<1> DEFINE p == 2^i
           q == x \div p
<1>1. p \in Nat /\ p > 0
  BY PowerStep
<1> HIDE DEF p
<1>2. q \in Int
  BY <1>1
<1> HIDE DEF q
<1>3. q % 2 \in 0 .. 1
  BY <1>2
<1> QED
  BY <1>3 DEF WordBit, p, q

LEMMA BitsOfSmall ==
    ASSUME NEW u \in Nat, NEW x \in Nat, x < 2^u, NEW i \in Nat, i >= u
    PROVE  WordBit(x, i) = 0
<1> DEFINE p == 2^i
<1>1. p \in Nat /\ p > 0 /\ x \in 0 .. p - 1
  <2>1. 2^u <= p /\ 2^u \in Nat /\ p \in Nat /\ p > 0
    BY PowersGrow, PowerStep
  <2> HIDE DEF p
  <2> QED
    BY <2>1
<1> HIDE DEF p
<1>2. x = 0 * p + x
  BY <1>1
<1> DEFINE q == x \div p
<1>3. q = 0
  BY <1>1, <1>2, UniqueQuotient
<1> HIDE DEF q
<1>4. q % 2 = 0
  BY <1>3
<1> QED
  BY <1>4 DEF WordBit, p, q

\* The bits that a number of s signed bits does not need repeat its sign.
LEMMA SignBits ==
    ASSUME NEW t \in Nat, NEW s \in Nat, s > 0, s <= t, NEW x \in Word(t),
           Holds(s, SignedInteger(t, x))
    PROVE  \/ \A i \in s - 1 .. t - 1 : WordBit(x, i) = 0
           \/ \A i \in s - 1 .. t - 1 : WordBit(x, i) = 1
<1> DEFINE z == SignedInteger(t, x)
           h == 2^(t - 1)
           g == 2^(s - 1)
           p == 2^t
<1>1. /\ x \in Nat /\ p \in Nat /\ h \in Nat /\ p = 2 * h /\ x < p
      /\ z = IF x < h THEN x ELSE x - p
  BY TopBit, SignedOfWord DEF Word
<1>2. z \in Int /\ -g <= z /\ z < g
  BY DEF Holds
<1> HIDE DEF z, h, p
<1>3. CASE x < h
  <2>1. x < g
    BY <1>1, <1>2, <1>3
  <2>2. s - 1 \in Nat
    OBVIOUS
  <2>3. \A i \in s - 1 .. t - 1 : WordBit(x, i) = 0
    <3> DEFINE n == s - 1
    <3> HIDE DEF n
    <3>1. n \in Nat /\ x < 2^n
      BY <2>1, <2>2 DEF n
    <3>2. \A i \in n .. t - 1 : WordBit(x, i) = 0
      BY <1>1, <3>1, BitsOfSmall
    <3> QED
      BY <3>2 DEF n
  <2> QED
    BY <2>3
<1>4. CASE ~ (x < h)
  <2>1. ASSUME NEW i \in s - 1 .. t - 1
        PROVE  WordBit(x, i) = 1
    <3> DEFINE k == 2^i
               r == t - (i + 1)
               q == 2^r
               m == p - x
    <3>1. i \in Nat /\ i + 1 \in Nat /\ r \in Nat /\ (i + 1) + r = t /\ s - 1 \in Nat /\ s - 1 <= i
      OBVIOUS
    <3>2. k \in Nat /\ k > 0 /\ 2^(i + 1) = 2 * k /\ q \in Nat /\ q > 0
      <4> HIDE DEF r
      <4> QED
        BY <3>1, PowerStep
    <3>3. p = 2^(i + 1) * q
      <4> HIDE DEF r
      <4>1. 2^((i + 1) + r) = 2^(i + 1) * 2^r
        BY <3>1, PowersAdd
      <4> QED
        BY <3>1, <4>1 DEF p
    <3>4. g <= k /\ g \in Nat
      <4> DEFINE n == s - 1
      <4> HIDE DEF n
      <4>1. n \in Nat /\ n <= i
        BY <3>1 DEF n
      <4>2. 2^n <= 2^i /\ 2^n \in Nat
        BY <3>1, <4>1, PowersGrow, PowerStep
      <4> QED
        BY <4>2 DEF n
    <3>5. m \in 1 .. k
      <4> HIDE DEF k, g
      <4> QED
        BY <1>1, <1>2, <1>4, <3>2, <3>4
    <3> HIDE DEF k, q, g, r
    <3>6. (2 * k) * q = (2 * q) * k /\ (2 * q - 1) * k = (2 * q) * k - k
      BY <3>2
    <3> DEFINE d == 2 * q - 1
               o == k - m
    <3>7. d \in Int /\ o \in 0 .. k - 1 /\ x = d * k + o
      BY <1>1, <3>2, <3>3, <3>5, <3>6
    <3>8. d % 2 = 1
      BY <3>2
    <3> HIDE DEF d, o
    <3>9. x \div k = d
      BY <1>1, <3>2, <3>7, UniqueQuotient
    <3> QED
      BY <3>8, <3>9 DEF WordBit, k
  <2> QED
    BY <2>1
<1> QED
  BY <1>3, <1>4

-----------------------------------------------------------------------------
(***************************************************************************)
(* The operators on two operands.                                          *)
(***************************************************************************)
\* An operand with the bits that suffice for it.
Operand(t, bits, x) == x \in Word(t) /\ Valid(t, bits) /\ Suffices(bits, t, x)

LEMMA OperandFacts ==
    ASSUME NEW t \in Nat, t > 0, NEW bits, NEW x, Operand(t, bits, x)
    PROVE  /\ x \in Nat /\ x \in Int /\ x \in Word(t) /\ x < 2^bits.unsigned
           /\ bits.unsigned \in Nat /\ bits.unsigned > 0 /\ bits.unsigned <= t
           /\ bits.signed \in Nat /\ bits.signed > 0 /\ bits.signed <= t
           /\ Holds(bits.signed, SignedInteger(t, x))
           /\ \A i \in Nat : WordBit(x, i) \in 0 .. 1
           /\ \A i \in Nat : i >= bits.unsigned => WordBit(x, i) = 0
<1>1. /\ x \in Nat /\ x \in Int /\ x \in Word(t) /\ x < 2^bits.unsigned
      /\ bits.unsigned \in Nat /\ bits.unsigned > 0 /\ bits.unsigned <= t
      /\ bits.signed \in Nat /\ bits.signed > 0 /\ bits.signed <= t
      /\ Holds(bits.signed, SignedInteger(t, x))
  BY DEF Operand, Valid, Suffices, Word
<1>2. \A i \in Nat : WordBit(x, i) \in 0 .. 1
  BY <1>1, BitIsBit
<1>3. \A i \in Nat : i >= bits.unsigned => WordBit(x, i) = 0
  <2> DEFINE u == bits.unsigned
  <2>1. u \in Nat /\ x \in Nat /\ x < 2^u
    BY <1>1
  <2> HIDE DEF u
  <2>2. \A i \in Nat : i >= u => WordBit(x, i) = 0
    BY <2>1, BitsOfSmall
  <2> QED
    BY <2>2 DEF u
<1> QED
  BY <1>1, <1>2, <1>3

\* From the greater of the signed bounds on, the bits of each operand repeat its sign.
LEMMA OperandSigns ==
    ASSUME NEW t \in Nat, t > 0, NEW bits, NEW x, Operand(t, bits, x),
           NEW s \in Nat, bits.signed <= s, s <= t
    PROVE  \/ \A i \in s - 1 .. t - 1 : WordBit(x, i) = 0
           \/ \A i \in s - 1 .. t - 1 : WordBit(x, i) = 1
<1>1. bits.signed \in Nat /\ bits.signed > 0 /\ x \in Word(t) /\ s > 0
  BY OperandFacts
<1>2. Holds(bits.signed, SignedInteger(t, x))
  BY OperandFacts
<1> DEFINE n == bits.signed
<1>3. n \in Nat /\ n > 0 /\ n <= s /\ Holds(n, SignedInteger(t, x))
  BY <1>1, <1>2
<1> HIDE DEF n
<1>4. Holds(s, SignedInteger(t, x))
  BY <1>3, HoldsMore
<1> QED
  BY <1>1, <1>4, SignBits

LEMMA BitwiseSuffices ==
    ASSUME NEW t \in Nat, t > 0, NEW a, NEW b, NEW x, NEW y, Operand(t, a, x), Operand(t, b, y)
    PROVE  LET s == Greatest(a.signed, b.signed)
               u == Greatest(a.unsigned, b.unsigned)
               v == Least(a.unsigned, b.unsigned)
           IN  /\ BitAnd(t, x, y) \in Word(t) /\ BitOr(t, x, y) \in Word(t)
               /\ BitXor(t, x, y) \in Word(t)
               /\ Suffices(ClampRequiredBits(t, v, s), t, BitAnd(t, x, y))
               /\ Suffices(ClampRequiredBits(t, u, s), t, BitOr(t, x, y))
               /\ Suffices(ClampRequiredBits(t, u, s), t, BitXor(t, x, y))
<1> DEFINE s == Greatest(a.signed, b.signed)
           u == Greatest(a.unsigned, b.unsigned)
           v == Least(a.unsigned, b.unsigned)
           X(i) == WordBit(x, i)
           Y(i) == WordBit(y, i)
           and == [i \in 0 .. t - 1 |-> X(i) * Y(i)]
           or  == [i \in 0 .. t - 1 |-> IF X(i) + Y(i) = 0 THEN 0 ELSE 1]
           xor == [i \in 0 .. t - 1 |-> (X(i) + Y(i)) % 2]
<1>1. /\ u \in Nat /\ v \in Nat /\ s \in Nat /\ u > 0 /\ v > 0 /\ s > 0
      /\ a.signed <= s /\ b.signed <= s /\ a.unsigned <= u /\ b.unsigned <= u
      /\ (v = a.unsigned \/ v = b.unsigned)
      /\ a.unsigned \in Nat /\ b.unsigned \in Nat
  BY OperandFacts DEF Greatest, Least
<1>2. \A i \in Nat : (X(i) = 0 \/ X(i) = 1) /\ (Y(i) = 0 \/ Y(i) = 1)
  <2>1. \A i \in Nat : X(i) \in 0 .. 1 /\ Y(i) \in 0 .. 1
    BY OperandFacts
  <2> HIDE DEF X, Y
  <2> QED
    BY <2>1
<1>3. /\ \A i \in Nat : i >= a.unsigned => X(i) = 0
      /\ \A i \in Nat : i >= b.unsigned => Y(i) = 0
  BY OperandFacts
<1>4. s < t => /\ \/ \A i \in s - 1 .. t - 1 : X(i) = 0
                  \/ \A i \in s - 1 .. t - 1 : X(i) = 1
               /\ \/ \A i \in s - 1 .. t - 1 : Y(i) = 0
                  \/ \A i \in s - 1 .. t - 1 : Y(i) = 1
  <2> SUFFICES ASSUME s < t
               PROVE  /\ \/ \A i \in s - 1 .. t - 1 : X(i) = 0
                         \/ \A i \in s - 1 .. t - 1 : X(i) = 1
                      /\ \/ \A i \in s - 1 .. t - 1 : Y(i) = 0
                         \/ \A i \in s - 1 .. t - 1 : Y(i) = 1
    OBVIOUS
  <2>1. s <= t /\ s \in Nat /\ a.signed <= s /\ b.signed <= s
    BY <1>1
  <2> HIDE DEF s
  <2> QED
    BY <2>1, OperandSigns
<1>5. /\ BitAnd(t, x, y) = FromBits(t, and) /\ BitOr(t, x, y) = FromBits(t, or)
      /\ BitXor(t, x, y) = FromBits(t, xor)
  BY DEF BitAnd, BitOr, BitXor
<1> HIDE DEF X, Y, s, u, v
<1>6. \A i \in 0 .. t - 1 :
         /\ and[i] = IF X(i) = 1 /\ Y(i) = 1 THEN 1 ELSE 0
         /\ or[i] = IF X(i) = 1 \/ Y(i) = 1 THEN 1 ELSE 0
         /\ xor[i] = IF X(i) = Y(i) THEN 0 ELSE 1
  BY <1>2
<1>7. and \in BitsOf(t) /\ or \in BitsOf(t) /\ xor \in BitsOf(t)
  <2>1. DOMAIN and = 0 .. t - 1 /\ DOMAIN or = 0 .. t - 1 /\ DOMAIN xor = 0 .. t - 1
    OBVIOUS
  <2>2. \A i \in 0 .. t - 1 : and[i] \in 0 .. 1 /\ or[i] \in 0 .. 1 /\ xor[i] \in 0 .. 1
    BY <1>6
  <2>3. /\ and = [i \in 0 .. t - 1 |-> and[i]] /\ or = [i \in 0 .. t - 1 |-> or[i]]
        /\ xor = [i \in 0 .. t - 1 |-> xor[i]]
    OBVIOUS
  <2> HIDE DEF and, or, xor
  <2> QED
    BY <2>2, <2>3 DEF BitsOf
<1> HIDE DEF and, or, xor
<1>8. \A i \in v .. t - 1 : and[i] = 0
  BY <1>1, <1>3, <1>6
<1>9. \A i \in u .. t - 1 : or[i] = 0 /\ xor[i] = 0
  <2>1. \A i \in u .. t - 1 : X(i) = 0 /\ Y(i) = 0
    BY <1>1, <1>3
  <2> QED
    BY <1>1, <1>6, <2>1
<1>10. s < t => /\ \/ \A i \in s - 1 .. t - 1 : and[i] = 0
                   \/ \A i \in s - 1 .. t - 1 : and[i] = 1
                /\ \/ \A i \in s - 1 .. t - 1 : or[i] = 0
                   \/ \A i \in s - 1 .. t - 1 : or[i] = 1
                /\ \/ \A i \in s - 1 .. t - 1 : xor[i] = 0
                   \/ \A i \in s - 1 .. t - 1 : xor[i] = 1
  BY <1>1, <1>4, <1>6
<1>11. /\ Suffices(ClampRequiredBits(t, v, s), t, FromBits(t, and))
       /\ Suffices(ClampRequiredBits(t, u, s), t, FromBits(t, or))
       /\ Suffices(ClampRequiredBits(t, u, s), t, FromBits(t, xor))
  BY <1>1, <1>7, <1>8, <1>9, <1>10, BitsSuffice
<1>12. FromBits(t, and) \in Word(t) /\ FromBits(t, or) \in Word(t) /\ FromBits(t, xor) \in Word(t)
  BY <1>7, FromBitsRange
<1> QED
  BY <1>5, <1>11, <1>12 DEF s, u, v

LEMMA WrappedIsWord ==
    ASSUME NEW t \in Nat, NEW z \in Int
    PROVE  z % 2^t \in Word(t)
<1> DEFINE p == 2^t
<1>1. p \in Nat /\ p > 0
  BY PowerStep
<1> HIDE DEF p
<1>2. z % p \in 0 .. p - 1
  BY <1>1
<1> QED
  BY <1>2 DEF Word, p

LEMMA DivisionFacts ==
    ASSUME NEW x \in Nat, NEW y \in Nat, y > 0
    PROVE  /\ x \div y \in Nat /\ x \div y <= x
           /\ x % y \in 0 .. y - 1 /\ x % y <= x
           /\ x = (x \div y) * y + (x % y)
<1> DEFINE q == x \div y
           r == x % y
<1>1. q \in Int /\ r \in 0 .. y - 1 /\ x = q * y + r
  OBVIOUS
<1> HIDE DEF q, r
<1>2. q >= 0
  <2> SUFFICES ASSUME q < 0
               PROVE  FALSE
    BY <1>1
  <2>1. (-q - 1) * y >= 0
    BY <1>1
  <2>2. q * y + y <= 0
    BY <1>1, <2>1
  <2> QED
    BY <1>1, <2>2
<1>3. q * (y - 1) >= 0 /\ q * (y - 1) = q * y - q
  BY <1>1, <1>2
<1>4. q * y \in Int /\ q <= q * y
  BY <1>1, <1>3
<1>5. q <= x /\ r <= x
  <2> DEFINE m == q * y
  <2>1. m \in Int /\ q <= m /\ x = m + r
    BY <1>1, <1>4
  <2> HIDE DEF m
  <2> QED
    BY <1>1, <1>2, <2>1
<1>6. q \in Nat /\ q <= x /\ r \in 0 .. y - 1 /\ r <= x /\ x = q * y + r
  BY <1>1, <1>2, <1>5
<1> QED
  BY <1>6 DEF q, r

\* The two parts that a shift or a rotation by c makes of a word.
LEMMA SplitWord ==
    ASSUME NEW t \in Nat, NEW c \in 0 .. t, NEW x \in Word(t)
    PROVE  /\ x \div 2^c \in Nat /\ x \div 2^c < 2^(t - c) /\ x \div 2^c <= x
           /\ x % 2^c \in Nat /\ x % 2^c < 2^c /\ x % 2^c <= x
           /\ 2^t = 2^c * 2^(t - c) /\ 2^c \in Nat /\ 2^(t - c) \in Nat /\ 2^c > 0
           /\ 2^(t - c) > 0
<1> DEFINE p == 2^c
           q == 2^(t - c)
<1>1. c \in Nat /\ t - c \in Nat /\ c + (t - c) = t
  OBVIOUS
<1>2. p \in Nat /\ p > 0 /\ q \in Nat /\ q > 0 /\ 2^t = p * q /\ x \in Nat /\ x < 2^t
  <2> DEFINE d == t - c
  <2> HIDE DEF d
  <2>1. d \in Nat /\ c + d = t
    BY <1>1 DEF d
  <2>2. 2^(c + d) = 2^c * 2^d /\ 2^c \in Nat /\ 2^c > 0 /\ 2^d \in Nat /\ 2^d > 0 /\ 2^t \in Nat
    BY <1>1, <2>1, PowersAdd, PowerStep
  <2> QED
    BY <2>1, <2>2 DEF d, Word
<1> HIDE DEF p, q
<1> DEFINE d == x \div p
           m == x % p
<1>3. d \in Nat /\ d <= x /\ m \in 0 .. p - 1 /\ m <= x /\ x = d * p + m
  BY <1>2, DivisionFacts
<1> HIDE DEF d, m
<1>4. d < q
  <2> SUFFICES ASSUME d >= q
               PROVE  FALSE
    BY <1>2, <1>3
  <2>1. (d - q) * p >= 0 /\ (d - q) * p = d * p - p * q
    BY <1>2, <1>3
  <2>2. d * p \in Int /\ p * q \in Int
    BY <1>2, <1>3
  <2> QED
    BY <1>2, <1>3, <2>1, <2>2
<1>5. m \in Nat /\ m < p
  BY <1>2, <1>3
<1> QED
  BY <1>2, <1>3, <1>4, <1>5 DEF p, q, d, m

\* What is shifted left by c loses its c highest bits.
LEMMA LeftPart ==
    ASSUME NEW t \in Nat, NEW c \in 0 .. t, NEW x \in Word(t)
    PROVE  LET l == (x % 2^(t - c)) * 2^c
           IN  /\ l \in Nat /\ l + 2^c <= 2^t
               /\ \A u \in Nat : x < 2^u => l < 2^(u + c)
<1> DEFINE d == t - c
           p == 2^c
           q == 2^d
           m == x % q
           l == m * p
<1>1. d \in 0 .. t /\ t - d = c /\ c \in Nat
  OBVIOUS
<1>2. /\ m \in Nat /\ m < q /\ m <= x /\ 2^t = q * p /\ p \in Nat /\ q \in Nat /\ p > 0
      /\ x \in Nat
  <2> HIDE DEF d
  <2>1. /\ x % 2^d \in Nat /\ x % 2^d < 2^d /\ x % 2^d <= x
        /\ 2^t = 2^d * 2^(t - d) /\ 2^d \in Nat /\ 2^(t - d) \in Nat /\ 2^(t - d) > 0
    BY <1>1, SplitWord
  <2>2. 2^t \in Nat
    BY PowerStep
  <2> QED
    BY <1>1, <2>1, <2>2 DEF Word
<1> HIDE DEF d, m, p, q
<1>3. l \in Nat
  BY <1>2
<1>4. l + p <= q * p
  <2>1. (q - 1 - m) * p >= 0 /\ (q - 1 - m) * p = q * p - p - m * p
    BY <1>2
  <2>2. q * p \in Int /\ m * p \in Int
    BY <1>2
  <2> QED
    BY <1>2, <2>1, <2>2
<1>5. ASSUME NEW u \in Nat, x < 2^u
      PROVE  l < 2^(u + c)
  <2> DEFINE e == 2^u
  <2>1. e \in Nat /\ 2^(u + c) = e * p /\ m < e
    <3>1. e \in Nat /\ 2^(u + c) = e * p
      BY <1>1, PowersAdd, PowerStep DEF p
    <3> HIDE DEF e
    <3>2. m < e
      BY <1>2, <1>5, <3>1 DEF e
    <3> QED
      BY <3>1, <3>2
  <2> HIDE DEF e
  <2>2. (e - 1 - m) * p >= 0 /\ (e - 1 - m) * p = e * p - p - m * p
    BY <1>2, <2>1
  <2>3. e * p \in Int /\ m * p \in Int
    BY <1>2, <2>1
  <2> QED
    BY <1>2, <2>1, <2>2, <2>3
<1> QED
  BY <1>2, <1>3, <1>4, <1>5 DEF d, p, q, m

\* The quotient of signed integers, and what is left.
LEMMA SignedDivisionType ==
    ASSUME NEW x \in Int, NEW y \in Int, y # 0
    PROVE  Quotient(x, y) \in Int /\ Remainder(x, y) \in Int
<1> DEFINE m == Magnitude(x)
           n == Magnitude(y)
           q == m \div n
<1>1. m \in Nat /\ n \in Nat /\ n > 0
  BY DEF Magnitude
<1> HIDE DEF m, n
<1>2. q \in Int
  BY <1>1, DivisionFacts
<1>3. Quotient(x, y) = IF (x < 0) = (y < 0) THEN q ELSE -q
  BY DEF Quotient, m, n
<1> HIDE DEF q
<1>4. Quotient(x, y) \in Int
  BY <1>2, <1>3
<1> DEFINE k == Quotient(x, y)
<1>5. k \in Int /\ Remainder(x, y) = x - y * k
  BY <1>4 DEF Remainder
<1> HIDE DEF k
<1>6. Remainder(x, y) \in Int
  BY <1>5
<1> QED
  BY <1>4, <1>6

\* Only the words zero are read as zero.
LEMMA SignedZero ==
    ASSUME NEW t \in Nat, t > 0, NEW x \in Word(t)
    PROVE  SignedInteger(t, x) \in Int /\ (SignedInteger(t, x) = 0 <=> x = 0)
<1> DEFINE p == 2^t
           h == 2^(t - 1)
           z == SignedInteger(t, x)
<1>1. /\ p \in Nat /\ h \in Nat /\ h > 0 /\ p = 2 * h /\ x \in 0 .. p - 1
      /\ z = IF x < h THEN x ELSE x - p
  BY TopBit, SignedOfWord DEF Word
<1> HIDE DEF p, h, z
<1>2. z \in Int /\ (z = 0 <=> x = 0)
  BY <1>1
<1> QED
  BY <1>2 DEF z

\* An instruction on two operands has a word of their type, or traps.
LEMMA BinaryWord ==
    ASSUME NEW t \in Nat, t > 0, NEW operator \in BinaryOperators, NEW x \in Word(t), NEW y \in Word(t)
    PROVE  LET r == BinaryInstruction(t, operator, x, y)
           IN  /\ r \in {Trap} \cup Word(t)
               /\ r = Trap => operator \in UnsafeOperators
<1> DEFINE r == BinaryInstruction(t, operator, x, y)
           signedX == SignedInteger(t, x)
           signedY == SignedInteger(t, y)
           c == y % t
           p == 2^t
<1> SUFFICES /\ r \in {Trap} \cup Word(t)
             /\ r = Trap => operator \in UnsafeOperators
  OBVIOUS
<1>1. x \in Nat /\ y \in Nat /\ p \in Nat /\ x < p /\ y < p /\ t \in Int
  BY PowerStep DEF Word
<1>2. signedX \in Int /\ signedY \in Int /\ (signedY = 0 <=> y = 0)
  BY SignedZero
<1>3. c \in 0 .. t - 1 /\ c \in 0 .. t /\ c \in Nat
  BY <1>1, DivisionFacts
<1>4. \A z \in Int : z % p \in Word(t)
  BY WrappedIsWord
<1>5. \A z \in Nat : z < p => z \in Word(t)
  BY <1>1 DEF Word
<1>6. Trap \notin Word(t)
  BY DEF Trap, Word
<1>7. CASE operator \in {"add", "sub", "mul"}
  <2>1. x + y \in Int /\ x - y \in Int /\ x * y \in Int
    BY <1>1
  <2>2. r \in {(x + y) % p, (x - y) % p, (x * y) % p}
    BY <1>7 DEF BinaryInstruction
  <2>3. (x + y) % p \in Word(t) /\ (x - y) % p \in Word(t) /\ (x * y) % p \in Word(t)
    BY <1>4, <2>1
  <2> HIDE DEF r
  <2> QED
    BY <1>6, <2>2, <2>3
<1>8. CASE operator \in UnsafeOperators
  <2>1. CASE y = 0
    <3>1. r = Trap
      BY <1>8, <2>1 DEF BinaryInstruction, UnsafeOperators
    <3> QED
      BY <1>8, <3>1
  <2>2. CASE y # 0
    <3>1. Quotient(signedX, signedY) \in Int /\ Remainder(signedX, signedY) \in Int
      <4> HIDE DEF signedX, signedY
      <4> QED
        BY <1>2, <2>2, SignedDivisionType
    <3>2. x \div y \in Word(t) /\ x % y \in Word(t)
      <4>1. /\ x \div y \in Nat /\ x \div y <= x /\ x % y \in 0 .. y - 1 /\ x % y <= x
        BY <1>1, <2>2, DivisionFacts
      <4> DEFINE d == x \div y
                 m == x % y
      <4>2. d \in Nat /\ d <= x /\ m \in Nat /\ m <= x
        BY <4>1
      <4> HIDE DEF d, m, p
      <4>3. d \in Word(t) /\ m \in Word(t)
        BY <1>1, <1>5, <4>2
      <4> QED
        BY <4>3 DEF d, m
    <3>3. Quotient(signedX, signedY) % p \in Word(t) /\ Remainder(signedX, signedY) % p \in Word(t)
      <4> HIDE DEF signedX, signedY, p
      <4> QED
        BY <1>4, <3>1
    <3>4. r \in {Trap, Quotient(signedX, signedY) % p, Remainder(signedX, signedY) % p,
                 x \div y, x % y}
      BY <1>8 DEF BinaryInstruction, UnsafeOperators
    <3> HIDE DEF r
    <3> QED
      BY <1>8, <3>2, <3>3, <3>4
  <2> QED
    BY <2>1, <2>2
<1>9. CASE operator \in {"and", "or", "xor"}
  <2>1. Operand(t, UnknownRequiredBits(t), x) /\ Operand(t, UnknownRequiredBits(t), y)
    BY UnknownSuffices DEF Operand
  <2>2. BitAnd(t, x, y) \in Word(t) /\ BitOr(t, x, y) \in Word(t) /\ BitXor(t, x, y) \in Word(t)
    BY <2>1, BitwiseSuffices
  <2>3. r \in {BitAnd(t, x, y), BitOr(t, x, y), BitXor(t, x, y)}
    BY <1>9 DEF BinaryInstruction
  <2> HIDE DEF r
  <2> QED
    BY <1>6, <2>2, <2>3
<1>10. CASE operator = "shl"
  <2> DEFINE l == (x % 2^(t - c)) * 2^c
  <2>1. r = l
    BY <1>10 DEF BinaryInstruction
  <2>2. l \in Nat /\ l + 2^c <= p /\ 2^c \in Nat /\ 2^c > 0
    <3> HIDE DEF c
    <3> QED
      BY <1>3, LeftPart, PowerStep
  <2> HIDE DEF l, c, p, r
  <2>3. l < p
    BY <1>1, <2>2
  <2> QED
    BY <1>5, <1>6, <2>1, <2>2, <2>3
<1>11. CASE operator = "shr_u"
  <2>1. r = x \div 2^c
    BY <1>11 DEF BinaryInstruction
  <2>2. x \div 2^c \in Nat /\ x \div 2^c <= x
    <3> HIDE DEF c
    <3> QED
      BY <1>3, SplitWord
  <2>3. r \in Nat /\ r <= x
    BY <2>1, <2>2
  <2> HIDE DEF p, r
  <2> QED
    BY <1>1, <1>5, <1>6, <2>3
<1>12. CASE operator = "shr_s"
  <2>1. r = (signedX \div 2^c) % p
    BY <1>12 DEF BinaryInstruction
  <2>2. signedX \div 2^c \in Int
    <3> DEFINE q == 2^c
    <3>1. q \in Nat /\ q > 0
      <4> HIDE DEF c
      <4> QED
        BY <1>3, PowerStep
    <3> HIDE DEF q, signedX
    <3>2. signedX \div q \in Int
      BY <1>2, <3>1
    <3> QED
      BY <3>2 DEF q
  <2>3. r \in Word(t)
    BY <1>4, <2>1, <2>2
  <2> QED
    BY <1>6, <2>3
<1>13. CASE operator \in Rotates
  <2>1. ASSUME NEW d \in 0 .. t
        PROVE  (x % 2^(t - d)) * 2^d + x \div 2^(t - d) \in Word(t)
    <3> DEFINE l == (x % 2^(t - d)) * 2^d
               m == x \div 2^(t - d)
    <3>1. l \in Nat /\ l + 2^d <= p
      BY LeftPart
    <3>2. m \in Nat /\ m < 2^d
      <4> DEFINE e == t - d
      <4>1. e \in 0 .. t /\ t - e = d
        OBVIOUS
      <4> HIDE DEF e
      <4>2. x \div 2^e \in Nat /\ x \div 2^e < 2^(t - e)
        BY <4>1, SplitWord
      <4> QED
        BY <4>1, <4>2 DEF e
    <3>3. 2^d \in Nat
      BY PowerStep
    <3> HIDE DEF l, m, p
    <3>4. l + m \in Nat /\ l + m < p
      BY <1>1, <3>1, <3>2, <3>3
    <3>5. l + m \in Word(t)
      BY <1>5, <3>4
    <3> QED
      BY <3>5 DEF l, m
  <2>2. CASE operator = "rotl"
    <3>1. r = (x % 2^(t - c)) * 2^c + x \div 2^(t - c)
      BY <2>2 DEF BinaryInstruction
    <3>2. r \in Word(t)
      BY <1>3, <2>1, <3>1
    <3> QED
      BY <1>6, <3>2
  <2>3. CASE operator = "rotr"
    <3> DEFINE d == t - c
    <3>1. r = (x % 2^c) * 2^(t - c) + x \div 2^c
      BY <2>3 DEF BinaryInstruction
    <3>2. d \in 0 .. t /\ t - d = c
      BY <1>3
    <3>3. r = (x % 2^(t - d)) * 2^d + x \div 2^(t - d)
      BY <3>1, <3>2
    <3>4. r \in Word(t)
      BY <2>1, <3>2, <3>3
    <3> QED
      BY <1>6, <3>4
  <2> QED
    BY <1>13, <2>2, <2>3 DEF Rotates
<1>14. \/ operator \in {"add", "sub", "mul"} \/ operator \in UnsafeOperators
       \/ operator \in {"and", "or", "xor"} \/ operator = "shl" \/ operator = "shr_u"
       \/ operator = "shr_s" \/ operator \in Rotates
  BY DEF BinaryOperators, Arithmetic, Shifts, Rotates, UnsafeOperators
<1> QED
  BY <1>7, <1>8, <1>9, <1>10, <1>11, <1>12, <1>13, <1>14

\* A result that is no greater than an operand needs no more bits than it.
LEMMA NotGreaterSuffices ==
    ASSUME NEW t \in Nat, t > 0, NEW bits, NEW x, Operand(t, bits, x), NEW r \in Nat, r <= x
    PROVE  /\ Suffices(ClampRequiredBits(t, bits.unsigned, t), t, r)
           /\ Suffices(ZeroExtendedRequiredBits(t, bits.unsigned), t, r)
<1> DEFINE u == bits.unsigned
           p == 2^u
           q == 2^t
<1>1. u \in Nat /\ u > 0 /\ x \in Nat /\ x < p /\ x < q /\ t \in Int
  BY OperandFacts DEF Word
<1>2. p \in Nat /\ q \in Nat
  BY <1>1, PowerStep
<1> HIDE DEF p, q, u
<1>3. r < p /\ r \in 0 .. q - 1 /\ Greatest(1, u) = u /\ u \in Int
  BY <1>1, <1>2 DEF Greatest
<1>4. r < 2^Greatest(1, u) /\ r \in Word(t) /\ (t < t => Holds(Greatest(1, t), SignedInteger(t, r)))
  BY <1>3 DEF p, q, Word
<1>5. Suffices(ClampRequiredBits(t, u, t), t, r)
  BY <1>1, <1>3, <1>4, ClampSuffices
<1> QED
  BY <1>5 DEF u, ZeroExtendedRequiredBits

LEMMA BinarySuffices ==
    ASSUME NEW t \in Nat, t > 0, NEW operator \in BinaryOperators,
           NEW a, NEW b, NEW x, NEW y, Operand(t, a, x), Operand(t, b, y),
           NEW constant, constant \in {Undefined, y},
           BinaryInstruction(t, operator, x, y) # Trap
    PROVE  LET bits == BinaryRequiredBits(t, operator, a, b, constant)
           IN  Valid(t, bits) /\ Suffices(bits, t, BinaryInstruction(t, operator, x, y))
<1> DEFINE r == BinaryInstruction(t, operator, x, y)
           bits == BinaryRequiredBits(t, operator, a, b, constant)
           c == y % t
           s == Greatest(a.signed, b.signed)
           u == Greatest(a.unsigned, b.unsigned)
           v == Least(a.unsigned, b.unsigned)
           U == a.unsigned
<1> SUFFICES Valid(t, bits) /\ Suffices(bits, t, r)
  OBVIOUS
<1>1. x \in Word(t) /\ y \in Word(t) /\ x \in Nat /\ y \in Nat /\ t \in Int
  BY OperandFacts
<1>2. r \in Word(t)
  BY <1>1, BinaryWord
<1>3. c \in 0 .. t - 1 /\ c \in 0 .. t /\ c \in Nat
  BY <1>1, DivisionFacts
<1>4. U \in Nat /\ U > 0 /\ u \in Int /\ v \in Int /\ s \in Int /\ U \in Int /\ b.unsigned \in Int
  BY OperandFacts DEF Greatest, Least
<1>5. constant # Undefined => constant = y
  OBVIOUS
<1>6. CASE operator = "and"
  <2>1. r = BitAnd(t, x, y) /\ bits = ClampRequiredBits(t, v, s)
    BY <1>6 DEF BinaryInstruction, BinaryRequiredBits
  <2>2. Suffices(ClampRequiredBits(t, v, s), t, BitAnd(t, x, y))
    BY BitwiseSuffices
  <2> HIDE DEF r, bits, v, s
  <2> QED
    BY <1>4, <2>1, <2>2, ClampIsValid
<1>7. CASE operator \in {"or", "xor"}
  <2>1. r \in {BitOr(t, x, y), BitXor(t, x, y)} /\ bits = ClampRequiredBits(t, u, s)
    BY <1>7 DEF BinaryInstruction, BinaryRequiredBits
  <2>2. /\ Suffices(ClampRequiredBits(t, u, s), t, BitOr(t, x, y))
        /\ Suffices(ClampRequiredBits(t, u, s), t, BitXor(t, x, y))
    BY BitwiseSuffices
  <2> HIDE DEF r, bits, u, s
  <2> QED
    BY <1>4, <2>1, <2>2, ClampIsValid
<1>8. CASE operator = "shl" /\ constant # Undefined
  <2> DEFINE n == U + c
  <2>1. bits = ZeroExtendedRequiredBits(t, n)
    BY <1>5, <1>8 DEF BinaryRequiredBits
  <2>2. r = (x % 2^(t - c)) * 2^c
    BY <1>8 DEF BinaryInstruction
  <2>3. x < 2^U
    BY OperandFacts
  <2>4. n \in Int /\ Greatest(1, n) = n
    BY <1>3, <1>4 DEF Greatest
  <2>5. r < 2^n
    <3> HIDE DEF c, U, r
    <3> QED
      BY <1>1, <1>3, <1>4, <2>2, <2>3, LeftPart
  <2> HIDE DEF r, bits, n
  <2>6. n < t => r < 2^Greatest(1, n)
    BY <2>4, <2>5
  <2> QED
    BY <1>2, <2>1, <2>4, <2>6, ZeroExtensionSuffices
<1>9. CASE operator = "shr_u" /\ constant # Undefined
  <2> DEFINE m == U - c
             n == Greatest(1, m)
  <2>1. bits = ZeroExtendedRequiredBits(t, n)
    BY <1>5, <1>9 DEF BinaryRequiredBits
  <2>2. r = x \div 2^c
    BY <1>9 DEF BinaryInstruction
  <2>3. x < 2^U
    BY OperandFacts
  <2>4. m \in Int /\ n \in Int /\ Greatest(1, n) = n
    BY <1>3, <1>4 DEF Greatest
  <2>5. r < 2^n
    <3>1. CASE m >= 1
      <4>1. n = m /\ c \in 0 .. U /\ x \in Word(U)
        <5>1. n = m /\ c \in 0 .. U
          BY <1>3, <1>4, <2>4, <3>1 DEF Greatest
        <5>2. 2^U \in Nat
          BY <1>4, PowerStep
        <5>3. x \in Word(U)
          BY <1>1, <2>3, <5>2 DEF Word
        <5> QED
          BY <5>1, <5>3
      <4>2. x \div 2^c < 2^(U - c)
        <5> HIDE DEF U, c
        <5> QED
          BY <1>4, <4>1, SplitWord
      <4> QED
        BY <2>2, <4>1, <4>2
    <3>2. CASE ~ (m >= 1)
      <4>1. n = 1 /\ c >= U
        BY <1>3, <1>4, <2>4, <3>2 DEF Greatest
      <4> DEFINE p == 2^c
      <4>2. 2^U <= p /\ 2^U \in Nat /\ p \in Nat /\ p > 0
        <5> HIDE DEF U, c
        <5> QED
          BY <1>3, <1>4, <4>1, PowersGrow, PowerStep
      <4>3. x \in 0 .. p - 1
        <5> HIDE DEF p
        <5> QED
          BY <1>1, <2>3, <4>2
      <4> HIDE DEF p
      <4>4. x = 0 * p + x
        BY <1>1, <4>2
      <4>5. x \div p = 0
        BY <1>1, <4>2, <4>3, <4>4, UniqueQuotient
      <4>6. r = 0
        BY <2>2, <4>5 DEF p
      <4>7. 2^n \in Nat /\ 2^n > 0
        BY <4>1, PowerStep
      <4> QED
        BY <4>6, <4>7
    <3> QED
      BY <2>4, <3>1, <3>2
  <2> HIDE DEF r, bits, n
  <2>6. n < t => r < 2^Greatest(1, n)
    BY <2>4, <2>5
  <2> QED
    BY <1>2, <2>1, <2>4, <2>6, ZeroExtensionSuffices
<1>10. CASE operator = "shr_u" /\ constant = Undefined
  <2>1. bits = ClampRequiredBits(t, U, t) /\ r = x \div 2^c
    BY <1>10 DEF BinaryRequiredBits, BinaryInstruction
  <2>2. x \div 2^c \in Nat /\ x \div 2^c <= x
    <3> HIDE DEF c
    <3> QED
      BY <1>1, <1>3, SplitWord
  <2>3. r \in Nat /\ r <= x
    BY <2>1, <2>2
  <2> HIDE DEF r, bits
  <2>4. Suffices(ClampRequiredBits(t, a.unsigned, t), t, r)
    BY <2>3, NotGreaterSuffices
  <2> QED
    BY <1>1, <1>4, <2>1, <2>4, ClampIsValid
<1>11. CASE operator \in {"div_u", "rem_u"}
  <2>1. y # 0 /\ r = IF operator = "div_u" THEN x \div y ELSE x % y
    BY <1>11 DEF BinaryInstruction
  <2>2. bits = ZeroExtendedRequiredBits(t, IF operator = "div_u" THEN a.unsigned ELSE b.unsigned)
    BY <1>11 DEF BinaryRequiredBits
  <2>3. x \div y \in Nat /\ x \div y <= x /\ x % y \in 0 .. y - 1
    BY <1>1, <2>1, DivisionFacts
  <2>4. x % y \in Nat /\ x % y <= y
    <3> DEFINE m == x % y
    <3>1. m \in 0 .. y - 1
      BY <2>3
    <3> HIDE DEF m
    <3>2. m \in Nat /\ m <= y
      BY <1>1, <3>1
    <3> QED
      BY <3>2 DEF m
  <2>5. CASE operator = "div_u"
    <3>1. r \in Nat /\ r <= x /\ bits = ZeroExtendedRequiredBits(t, a.unsigned)
      BY <2>1, <2>2, <2>3, <2>5
    <3> HIDE DEF r, bits
    <3> QED
      BY <1>4, <3>1, NotGreaterSuffices, ZeroExtensionSuffices
  <2>6. CASE operator = "rem_u"
    <3>1. r \in Nat /\ r <= y /\ bits = ZeroExtendedRequiredBits(t, b.unsigned)
      BY <2>1, <2>2, <2>4, <2>6
    <3> HIDE DEF r, bits
    <3> QED
      BY <1>4, <3>1, NotGreaterSuffices, ZeroExtensionSuffices
  <2> QED
    BY <1>11, <2>5, <2>6
<1>12. CASE /\ operator \notin {"and", "or", "xor", "shr_u", "div_u", "rem_u"}
            /\ operator = "shl" => constant = Undefined
  <2>1. bits = UnknownRequiredBits(t)
    BY <1>12 DEF BinaryRequiredBits
  <2> HIDE DEF r, bits
  <2> QED
    BY <1>2, <2>1, UnknownSuffices
<1> QED
  BY <1>6, <1>7, <1>8, <1>9, <1>10, <1>11, <1>12

-----------------------------------------------------------------------------
(***************************************************************************)
(* The inductive invariant: TypeOK and the two properties, with the        *)
(* readings of constants and parameters that the steps rely on.            *)
(***************************************************************************)
Kinds == Sources \cup
    {"const", "unreachable", "unary", "binary", "compare", "eqz", "convert", "select"}

Conversions == {"wrap_i64", "extend_i32_u", "extend_i32_s"}

Operators ==
    {"none", "extend_s"} \cup BitCounts \cup BinaryOperators \cup Comparisons \cup Conversions

KeptNodes ==
    [kind : Kinds, operator : Operators, value : Int \cup Index, type : {I32, I64},
     inputs : Seq(Nat)]

BitBounds == [unsigned : Nat, signed : Nat]

NodeOK(id) ==
    /\ \A i \in DOMAIN nodes[id].inputs : nodes[id].inputs[i] \in 1 .. id - 1
    /\ WellTyped(nodes[id], TypesOf(nodes[id]))
    /\ Valid(nodes[id].type, requiredBits[id])
    /\ words[id] \in {Trap} \cup Word(nodes[id].type)
    /\ words[id] # Trap => Suffices(requiredBits[id], nodes[id].type, words[id])
    /\ nodes[id].kind = "const" => words[id] # Trap /\ words[id] = nodes[id].value
    /\ nodes[id].kind = "parameter" => nodes[id].type \in Type
    /\ id \notin cannotSpeculate /\ words[id] = Trap =>
          \E i \in DOMAIN nodes[id].inputs : words[nodes[id].inputs[i]] = Trap

SequencesOK ==
    /\ nodes \in Seq(KeptNodes) /\ requiredBits \in Seq(BitBounds) /\ words \in Seq(Int)
    /\ Len(requiredBits) = Len(nodes) /\ Len(words) = Len(nodes)
    /\ cannotSpeculate \subseteq 1 .. Len(nodes)

IInv == SequencesOK /\ \A id \in 1 .. Len(nodes) : NodeOK(id)

\* What a new node has to bring along.
Sound(known, inputs, word) ==
    /\ Kept(known, inputs) \in KeptNodes
    /\ \A i \in DOMAIN inputs : inputs[i] \in 1 .. Len(nodes)
    /\ WellTyped(Kept(known, inputs), TypesOf(Kept(known, inputs)))
    /\ Valid(known.type, known.bits)
    /\ word \in {Trap} \cup Word(known.type)
    /\ word # Trap => Suffices(known.bits, known.type, word)
    /\ known.kind = "const" => word # Trap /\ word = known.value
    /\ known.kind = "parameter" => known.type \in Type
    /\ known.canSpeculate /\ word = Trap => \E i \in DOMAIN inputs : words[inputs[i]] = Trap

LEMMA InitOK == Init => IInv
BY DEF Init, IInv, SequencesOK

LEMMA WordIsInt ==
    ASSUME NEW t \in Nat
    PROVE  {Trap} \cup Word(t) \subseteq Int
BY PowerStep DEF Trap, Word

LEMMA AppendKeepsSequences ==
    ASSUME IInv, NEW known, NEW inputs, NEW word, Sound(known, inputs, word),
           AppendNode(known, inputs, word)
    PROVE  /\ SequencesOK'
           /\ Len(nodes') = Len(nodes) + 1 /\ Len(nodes) \in Nat
           /\ nodes'[Len(nodes) + 1] = Kept(known, inputs)
           /\ requiredBits'[Len(nodes) + 1] = known.bits
           /\ words'[Len(nodes) + 1] = word
           /\ \A id \in 1 .. Len(nodes) :
                 /\ nodes'[id] = nodes[id] /\ requiredBits'[id] = requiredBits[id]
                 /\ words'[id] = words[id]
                 /\ (id \notin cannotSpeculate' <=> id \notin cannotSpeculate)
           /\ (Len(nodes) + 1 \notin cannotSpeculate' => known.canSpeculate)
<1> DEFINE node == Kept(known, inputs)
           n == Len(nodes)
<1>1. /\ nodes \in Seq(KeptNodes) /\ requiredBits \in Seq(BitBounds) /\ words \in Seq(Int)
      /\ Len(requiredBits) = n /\ Len(words) = n /\ cannotSpeculate \subseteq 1 .. n /\ n \in Nat
  BY DEF IInv, SequencesOK
<1>2. node \in KeptNodes /\ known.bits \in BitBounds /\ word \in Int
  <2>1. node \in KeptNodes /\ known.type \in {I32, I64}
    BY DEF Sound, Kept, KeptNodes
  <2>2. known.type \in Nat
    BY <2>1, WidthFacts
  <2>3. word \in Int
    BY <2>2, WordIsInt DEF Sound
  <2>4. known.bits \in BitBounds
    BY DEF Sound, Valid, BitBounds
  <2> QED
    BY <2>1, <2>3, <2>4
<1>3. /\ nodes' = Append(nodes, node) /\ requiredBits' = Append(requiredBits, known.bits)
      /\ words' = Append(words, word)
      /\ cannotSpeculate' = IF known.canSpeculate THEN cannotSpeculate
                            ELSE cannotSpeculate \cup {n + 1}
  BY DEF AppendNode
<1> HIDE DEF node
<1>4. /\ nodes' \in Seq(KeptNodes) /\ Len(nodes') = n + 1 /\ nodes'[n + 1] = node
      /\ \A id \in 1 .. n : nodes'[id] = nodes[id]
  BY <1>1, <1>2, <1>3, AppendProperties
<1>5. /\ requiredBits' \in Seq(BitBounds) /\ Len(requiredBits') = n + 1
      /\ requiredBits'[n + 1] = known.bits
      /\ \A id \in 1 .. n : requiredBits'[id] = requiredBits[id]
  BY <1>1, <1>2, <1>3, AppendProperties
<1>6. /\ words' \in Seq(Int) /\ Len(words') = n + 1 /\ words'[n + 1] = word
      /\ \A id \in 1 .. n : words'[id] = words[id]
  BY <1>1, <1>2, <1>3, AppendProperties
<1>7. /\ cannotSpeculate' \subseteq 1 .. n + 1
      /\ \A id \in 1 .. n : id \notin cannotSpeculate' <=> id \notin cannotSpeculate
      /\ n + 1 \notin cannotSpeculate' => known.canSpeculate
  <2>1. 1 .. n \subseteq 1 .. n + 1 /\ n + 1 \in 1 .. n + 1 /\ \A id \in 1 .. n : id # n + 1
    BY <1>1
  <2> HIDE DEF n
  <2>2. CASE known.canSpeculate
    BY <1>1, <1>3, <2>1, <2>2
  <2>3. CASE ~ known.canSpeculate
    BY <1>1, <1>3, <2>1, <2>3
  <2> QED
    BY <2>2, <2>3
<1>8. SequencesOK'
  BY <1>4, <1>5, <1>6, <1>7 DEF SequencesOK
<1> QED
  BY <1>1, <1>4, <1>5, <1>6, <1>7, <1>8 DEF node

LEMMA AppendKeeps ==
    ASSUME IInv, NEW known, NEW inputs, NEW word, Sound(known, inputs, word),
           AppendNode(known, inputs, word)
    PROVE  IInv'
<1>0. PICK n \in Nat : n = Len(nodes)
  BY AppendKeepsSequences
<1>1. /\ SequencesOK' /\ Len(nodes') = n + 1
      /\ nodes'[n + 1] = Kept(known, inputs)
      /\ requiredBits'[n + 1] = known.bits
      /\ words'[n + 1] = word
      /\ n + 1 \notin cannotSpeculate' => known.canSpeculate
  BY <1>0, AppendKeepsSequences
<1>2. \A id \in 1 .. n :
         /\ nodes'[id] = nodes[id] /\ requiredBits'[id] = requiredBits[id]
         /\ words'[id] = words[id] /\ (id \notin cannotSpeculate' <=> id \notin cannotSpeculate)
  BY <1>0, AppendKeepsSequences
<1>3. ASSUME NEW id \in 1 .. n
      PROVE  NodeOK(id)'
  <2> DEFINE node == nodes[id]
  <2>1. NodeOK(id)
    BY <1>0 DEF IInv
  <2>2. \A i \in DOMAIN node.inputs : node.inputs[i] \in 1 .. id - 1 /\ node.inputs[i] \in 1 .. n
    BY <1>1, <2>1 DEF NodeOK
  <2>3. TypesOf(node)' = TypesOf(node)
    BY <1>2, <2>2 DEF TypesOf
  <2>4. nodes'[id] = nodes[id] /\ TypesOf(nodes[id])' = TypesOf(nodes[id])
    BY <1>2, <2>3
  <2>5. WellTyped(nodes[id], TypesOf(nodes[id]))'
    BY <2>1, <2>4 DEF NodeOK
  <2>6. \A i \in DOMAIN nodes[id].inputs : words'[nodes[id].inputs[i]] = words[nodes[id].inputs[i]]
    BY <1>2, <2>2
  <2> QED
    BY <1>2, <2>1, <2>5, <2>6 DEF NodeOK
<1>4. NodeOK(n + 1)'
  <2> DEFINE node == Kept(known, inputs)
  <2>1. /\ node.kind = known.kind /\ node.value = known.value /\ node.type = known.type
        /\ node.inputs = inputs
    BY DEF Kept
  <2>2. \A i \in DOMAIN inputs : inputs[i] \in 1 .. n /\ inputs[i] \in 1 .. (n + 1) - 1
    BY <1>0 DEF Sound
  <2>3. TypesOf(node)' = TypesOf(node)
    BY <1>2, <2>1, <2>2 DEF TypesOf
  <2>4. WellTyped(nodes[n + 1], TypesOf(nodes[n + 1]))'
    BY <1>1, <2>3 DEF Sound
  <2>5. \A i \in DOMAIN inputs : words'[inputs[i]] = words[inputs[i]]
    BY <1>2, <2>2
  <2> HIDE DEF node
  <2> QED
    BY <1>1, <2>1, <2>2, <2>4, <2>5 DEF NodeOK, Sound, node
<1>5. \A id \in 1 .. n + 1 : id \in 1 .. n \/ id = n + 1
  BY <1>0
<1> QED
  BY <1>1, <1>3, <1>4, <1>5 DEF IInv

\* What the invariant says of an input.
LEMMA InputFacts ==
    ASSUME IInv, NEW a \in Ids
    PROVE  /\ a \in 1 .. Len(nodes) /\ a \in Nat
           /\ nodes[a].type \in {I32, I64} /\ nodes[a].type \in Nat
           /\ nodes[a].type > 0 /\ nodes[a].type <= I64
           /\ Facts(a).type = nodes[a].type /\ Facts(a).bits = requiredBits[a]
           /\ Facts(a).kind = nodes[a].kind /\ Facts(a).value = nodes[a].value
           /\ Valid(nodes[a].type, requiredBits[a])
           /\ words[a] \in {Trap} \cup Word(nodes[a].type)
           /\ words[a] # Trap =>
                 /\ Operand(nodes[a].type, requiredBits[a], words[a])
                 /\ IntegerConstant(Facts(a)) \in {Undefined, words[a]}
<1>1. nodes \in Seq(KeptNodes) /\ Len(nodes) \in Nat
  BY DEF IInv, SequencesOK
<1>2. a \in 1 .. Len(nodes) /\ a \in Nat
  BY <1>1 DEF Ids
<1>3. nodes[a] \in KeptNodes
  BY <1>1, <1>2
<1>4. nodes[a].type \in {I32, I64}
  BY <1>3 DEF KeptNodes
<1>5. nodes[a].type \in Nat /\ nodes[a].type > 0 /\ nodes[a].type <= I64
  BY <1>4, WidthFacts
<1>6. NodeOK(a)
  BY <1>2 DEF IInv
<1>7. /\ Facts(a).type = nodes[a].type /\ Facts(a).bits = requiredBits[a]
      /\ Facts(a).kind = nodes[a].kind /\ Facts(a).value = nodes[a].value
  BY DEF Facts
<1>8. words[a] # Trap =>
         /\ Operand(nodes[a].type, requiredBits[a], words[a])
         /\ IntegerConstant(Facts(a)) \in {Undefined, words[a]}
  BY <1>6, <1>7 DEF NodeOK, Operand, IntegerConstant
<1> QED
  BY <1>2, <1>4, <1>5, <1>6, <1>7, <1>8 DEF NodeOK

\* An operation is sound if its instruction is when no operand has trapped.
LEMMA OperationIsSound ==
    ASSUME IInv, NEW known, NEW inputs,
           known.kind \notin {"const", "unreachable", "parameter"},
           Kept(known, inputs) \in KeptNodes,
           \A i \in DOMAIN inputs : inputs[i] \in 1 .. Len(nodes),
           WellTyped(Kept(known, inputs), TypesOf(Kept(known, inputs))),
           Valid(known.type, known.bits),
           NEW r, r = Instruction(Kept(known, inputs), TypesOf(Kept(known, inputs)),
                                  InputsOf(Kept(known, inputs))),
           (\A i \in DOMAIN inputs : words[inputs[i]] # Trap) =>
              /\ r \in {Trap} \cup Word(known.type)
              /\ r # Trap => Suffices(known.bits, known.type, r)
              /\ known.canSpeculate => r # Trap
    PROVE  Sound(known, inputs, Execution(Kept(known, inputs), TypesOf(Kept(known, inputs)),
                                          InputsOf(Kept(known, inputs))))
<1> DEFINE node == Kept(known, inputs)
           w == Execution(node, TypesOf(node), InputsOf(node))
<1>1. node.kind = known.kind /\ node.inputs = inputs
  BY DEF Kept
<1>2. /\ DOMAIN InputsOf(node) = DOMAIN inputs
      /\ \A i \in DOMAIN inputs : InputsOf(node)[i] = words[inputs[i]]
  BY <1>1 DEF InputsOf
<1>3. w = IF \E i \in DOMAIN inputs : words[inputs[i]] = Trap THEN Trap ELSE r
  <2> DEFINE ws == InputsOf(node)
  <2>1. w = IF \E i \in DOMAIN ws : ws[i] = Trap THEN Trap ELSE Instruction(node, TypesOf(node), ws)
    <3> HIDE DEF node, ws
    <3> QED
      BY <1>1 DEF Execution, ws, node
  <2>2. (\E i \in DOMAIN ws : ws[i] = Trap) <=> (\E i \in DOMAIN inputs : words[inputs[i]] = Trap)
    <3> HIDE DEF ws, node
    <3> QED
      BY <1>2 DEF ws
  <2> HIDE DEF node
  <2> QED
    BY <2>1, <2>2 DEF node
<1> HIDE DEF w
<1>4. CASE \E i \in DOMAIN inputs : words[inputs[i]] = Trap
  BY <1>3, <1>4 DEF Sound, w
<1>5. CASE \A i \in DOMAIN inputs : words[inputs[i]] # Trap
  BY <1>3, <1>5 DEF Sound, w
<1> QED
  BY <1>4, <1>5

LEMMA InternKeeps ==
    ASSUME IInv, NEW known, NEW inputs, Intern(known, inputs),
           WellTyped(Kept(known, inputs), TypesOf(Kept(known, inputs))) =>
              Sound(known, inputs, Execution(Kept(known, inputs), TypesOf(Kept(known, inputs)),
                                             InputsOf(Kept(known, inputs))))
    PROVE  IInv'
BY AppendKeeps DEF Intern

-----------------------------------------------------------------------------
(***************************************************************************)
(* The steps.                                                              *)
(***************************************************************************)
LEMMA KeptNodeType ==
    ASSUME NEW kind \in Kinds, NEW operator \in Operators, NEW value \in Int \cup Index,
           NEW type \in {I32, I64}, NEW inputs \in Seq(Nat)
    PROVE  [kind |-> kind, operator |-> operator, value |-> value, type |-> type,
            inputs |-> inputs] \in KeptNodes
BY DEF KeptNodes

LEMMA TypeFacts ==
    ASSUME NEW type \in Type
    PROVE  /\ type \in {I32, I64} /\ type \in Nat /\ type > 0 /\ type <= I64
           /\ Samples[type] \subseteq Word(type)
BY TypeAssumption, WidthFacts, SamplesAssumption DEF Word

LEMMA ConstantKeeps ==
    ASSUME IInv, NEW type \in Type, NEW value \in Samples[type], Constant(type, value)
    PROVE  IInv'
<1> DEFINE known == ConstantNode(type, value)
           node == Kept(known, <<>>)
<1>1. type \in {I32, I64} /\ type \in Nat /\ type > 0 /\ type <= I64 /\ value \in Word(type)
  BY TypeFacts
<1>2. NormalizeInteger(type, value) = value
  BY <1>1, SmallRemainder DEF NormalizeInteger
<1>3. known = [kind |-> "const", operator |-> "none", value |-> value, type |-> type,
               inputs |-> <<>>, bits |-> ConstantRequiredBits(type, value), canSpeculate |-> TRUE]
  BY <1>2 DEF ConstantNode, Node
<1>4. node = [kind |-> "const", operator |-> "none", value |-> value, type |-> type,
              inputs |-> <<>>]
  BY <1>3 DEF Kept
<1>5. value \in Int /\ value # Trap
  BY <1>1, WordIsInt DEF Trap, Word
<1>6. node \in KeptNodes
  <2>1. "const" \in Kinds /\ "none" \in Operators /\ <<>> \in Seq(Nat)
    BY DEF Kinds, Operators
  <2> HIDE DEF node
  <2> QED
    BY <1>1, <1>4, <1>5, <2>1, KeptNodeType
<1>7. Execution(node, TypesOf(node), InputsOf(node)) = value
  BY <1>4 DEF Execution
<1>8. WellTyped(node, TypesOf(node))
  BY <1>4 DEF WellTyped
<1>9. Valid(type, ConstantRequiredBits(type, value)) /\ Suffices(ConstantRequiredBits(type, value), type, value)
  BY <1>1, ConstantSuffices
<1>10. Sound(known, <<>>, value)
  <2> HIDE DEF node
  <2> QED
    BY <1>1, <1>3, <1>5, <1>6, <1>8, <1>9 DEF Sound, node
<1> QED
  BY <1>7, <1>10, InternKeeps DEF Constant

LEMMA UnreachableKeeps ==
    ASSUME IInv, NEW type \in Type, Unreachable(type)
    PROVE  IInv'
<1> DEFINE known == UnreachableNode(type)
           node == Kept(known, <<>>)
<1>1. type \in {I32, I64} /\ type \in Nat /\ type > 0 /\ type <= I64
  BY TypeFacts
<1>2. known = [kind |-> "unreachable", operator |-> "none", value |-> 0, type |-> type,
               inputs |-> <<>>, bits |-> UnknownRequiredBits(type), canSpeculate |-> FALSE]
  BY DEF UnreachableNode, Node
<1>3. node = [kind |-> "unreachable", operator |-> "none", value |-> 0, type |-> type,
              inputs |-> <<>>]
  BY <1>2 DEF Kept
<1>4. node \in KeptNodes
  <2>1. "unreachable" \in Kinds /\ "none" \in Operators /\ <<>> \in Seq(Nat) /\ 0 \in Int \cup Index
    BY DEF Kinds, Operators
  <2> HIDE DEF node
  <2> QED
    BY <1>1, <1>3, <2>1, KeptNodeType
<1>5. Execution(node, TypesOf(node), InputsOf(node)) = Trap
  BY <1>3 DEF Execution
<1>6. WellTyped(node, TypesOf(node))
  BY <1>3 DEF WellTyped
<1>7. Valid(type, UnknownRequiredBits(type))
  BY <1>1, UnknownSuffices
<1>8. Sound(known, <<>>, Trap)
  <2> HIDE DEF node
  <2> QED
    BY <1>1, <1>2, <1>4, <1>6, <1>7 DEF Sound, node
<1> QED
  BY <1>5, <1>8, InternKeeps DEF Unreachable

\* A source whose word agrees with what is declared of it.
LEMMA SourceKeeps ==
    ASSUME IInv, NEW kind \in Sources, NEW type \in {I32, I64}, NEW index \in Int \cup Index,
           NEW bits, NEW word \in Word(type), Valid(type, bits), Suffices(bits, type, word),
           kind = "parameter" => type \in Type,
           AppendNode(SourceNode(kind, index, type, bits), <<>>, word)
    PROVE  IInv'
<1> DEFINE known == SourceNode(kind, index, type, bits)
           node == Kept(known, <<>>)
<1>1. known = [kind |-> kind, operator |-> "none", value |-> index, type |-> type,
               inputs |-> <<>>, bits |-> bits, canSpeculate |-> TRUE]
  BY DEF SourceNode, Node
<1>2. node = [kind |-> kind, operator |-> "none", value |-> index, type |-> type,
              inputs |-> <<>>]
  BY <1>1 DEF Kept
<1>3. kind \in Kinds /\ kind # "const" /\ kind \notin {"binary", "compare", "select", "convert", "unary"}
  BY DEF Sources, Kinds
<1>4. node \in KeptNodes
  <2>1. "none" \in Operators /\ <<>> \in Seq(Nat)
    BY DEF Operators
  <2> HIDE DEF node
  <2> QED
    BY <1>2, <1>3, <2>1, KeptNodeType
<1>5. WellTyped(node, TypesOf(node))
  BY <1>2, <1>3 DEF WellTyped
<1>6. word # Trap
  <2>1. 2^type \in Nat
    BY WidthFacts, PowerStep
  <2> QED
    BY <2>1 DEF Trap, Word
<1>7. Sound(known, <<>>, word)
  <2> HIDE DEF node
  <2> QED
    BY <1>1, <1>3, <1>4, <1>5, <1>6 DEF Sound, node
<1> QED
  BY <1>7, AppendKeeps

LEMMA DeclaredFacts ==
    ASSUME NEW type \in Type, NEW bits \in Declared[type], NEW word \in Word(type),
           Fits(word, type, bits)
    PROVE  Valid(type, bits) /\ Suffices(bits, type, word)
BY TypeFacts, DeclaredAssumption, SufficesIsFits DEF Valid

LEMMA ParameterKeeps ==
    ASSUME IInv, NEW index \in Index, NEW type \in Type, NEW bits \in Declared[type],
           NEW word \in Samples[type], Parameter(index, type, bits, word)
    PROVE  IInv'
<1>1. type \in {I32, I64} /\ word \in Word(type) /\ index \in Int \cup Index /\ "parameter" \in Sources
  BY TypeFacts DEF Sources
<1>2. Fits(word, type, bits) /\ AppendNode(SourceNode("parameter", index, type, bits), <<>>, word)
  BY DEF Parameter, ParameterNode
<1>3. Valid(type, bits) /\ Suffices(bits, type, word)
  BY <1>1, <1>2, DeclaredFacts
<1> QED
  BY <1>1, <1>2, <1>3, SourceKeeps

LEMMA ProducerOutputKeeps ==
    ASSUME IInv, NEW type \in Type, NEW bits \in Declared[type],
           NEW word \in Samples[type], ProducerOutput(type, bits, word)
    PROVE  IInv'
<1>1. type \in {I32, I64} /\ word \in Word(type) /\ 0 \in Int \cup Index /\ "producerOutput" \in Sources
  BY TypeFacts DEF Sources
<1>2. Fits(word, type, bits) /\ AppendNode(SourceNode("producerOutput", 0, type, bits), <<>>, word)
  BY DEF ProducerOutput, Occurrence
<1>3. Valid(type, bits) /\ Suffices(bits, type, word)
  BY <1>1, <1>2, DeclaredFacts
<1> QED
  BY <1>1, <1>2, <1>3, SourceKeeps

LEMMA JoinOutputKeeps ==
    ASSUME IInv, NEW type \in Type, NEW results \in SUBSET Ids, NEW result \in results,
           JoinOutput(type, results, result)
    PROVE  IInv'
<1> DEFINE joined == {requiredBits[id] : id \in results}
           bits == JoinRequiredBits(type, joined)
           word == words[result]
<1>1. type \in {I32, I64} /\ type \in Nat /\ type > 0 /\ 0 \in Int \cup Index /\ "producerOutput" \in Sources
  BY TypeFacts DEF Sources
<1>2. /\ \A id \in results : nodes[id].type = type
      /\ word # Trap
      /\ AppendNode(SourceNode("producerOutput", 0, type, bits), <<>>, word)
  BY DEF JoinOutput, Occurrence
<1>3. \A id \in results : Valid(type, requiredBits[id])
  BY <1>2, InputFacts
<1>4. Operand(type, requiredBits[result], word)
  BY <1>2, InputFacts
<1>5. word \in Word(type) /\ Suffices(requiredBits[result], type, word) /\ requiredBits[result] \in joined
  BY <1>4 DEF Operand
<1>6. \A b \in joined : Valid(type, b)
  BY <1>3
<1> HIDE DEF joined, word
<1>7. Valid(type, bits) /\ Suffices(bits, type, word)
  BY <1>1, <1>5, <1>6, JoinSuffices
<1> HIDE DEF bits
<1> QED
  BY <1>1, <1>2, <1>5, <1>7, SourceKeeps

LEMMA LoopInputKeeps ==
    ASSUME IInv, NEW type \in Type, NEW word \in Samples[type], LoopInput(type, word)
    PROVE  IInv'
<1>1. /\ type \in {I32, I64} /\ type \in Nat /\ type > 0 /\ word \in Word(type)
      /\ 0 \in Int \cup Index /\ "loopInput" \in Sources
  BY TypeFacts DEF Sources
<1>2. AppendNode(SourceNode("loopInput", 0, type, UnknownRequiredBits(type)), <<>>, word)
  BY DEF LoopInput, Occurrence
<1>3. Valid(type, UnknownRequiredBits(type)) /\ Suffices(UnknownRequiredBits(type), type, word)
  BY <1>1, UnknownSuffices
<1> QED
  BY <1>1, <1>2, <1>3, SourceKeeps

LEMMA OneInput ==
    ASSUME IInv, NEW a \in Ids, NEW known
    PROVE  /\ <<a>> \in Seq(Nat)
           /\ \A i \in DOMAIN <<a>> : <<a>>[i] \in 1 .. Len(nodes)
           /\ TypesOf(Kept(known, <<a>>))[1] = nodes[a].type
           /\ InputsOf(Kept(known, <<a>>))[1] = words[a]
           /\ (\A i \in DOMAIN <<a>> : words[<<a>>[i]] # Trap) => words[a] # Trap
<1>1. a \in Nat /\ a \in 1 .. Len(nodes)
  BY InputFacts
<1>2. DOMAIN <<a>> = {1} /\ <<a>>[1] = a
  OBVIOUS
<1>3. Kept(known, <<a>>).inputs = <<a>>
  BY DEF Kept
<1> QED
  BY <1>1, <1>2, <1>3 DEF TypesOf, InputsOf

LEMMA TwoInputs ==
    ASSUME IInv, NEW a \in Ids, NEW b \in Ids, NEW known
    PROVE  /\ <<a, b>> \in Seq(Nat)
           /\ \A i \in DOMAIN <<a, b>> : <<a, b>>[i] \in 1 .. Len(nodes)
           /\ TypesOf(Kept(known, <<a, b>>))[1] = nodes[a].type
           /\ TypesOf(Kept(known, <<a, b>>))[2] = nodes[b].type
           /\ InputsOf(Kept(known, <<a, b>>))[1] = words[a]
           /\ InputsOf(Kept(known, <<a, b>>))[2] = words[b]
           /\ (\A i \in DOMAIN <<a, b>> : words[<<a, b>>[i]] # Trap) =>
                 words[a] # Trap /\ words[b] # Trap
<1>1. a \in Nat /\ a \in 1 .. Len(nodes) /\ b \in Nat /\ b \in 1 .. Len(nodes)
  BY InputFacts
<1>2. DOMAIN <<a, b>> = {1, 2} /\ <<a, b>>[1] = a /\ <<a, b>>[2] = b
  OBVIOUS
<1>3. Kept(known, <<a, b>>).inputs = <<a, b>>
  BY DEF Kept
<1> QED
  BY <1>1, <1>2, <1>3 DEF TypesOf, InputsOf

LEMMA ThreeInputs ==
    ASSUME IInv, NEW a \in Ids, NEW b \in Ids, NEW c \in Ids, NEW known
    PROVE  /\ <<a, b, c>> \in Seq(Nat)
           /\ \A i \in DOMAIN <<a, b, c>> : <<a, b, c>>[i] \in 1 .. Len(nodes)
           /\ TypesOf(Kept(known, <<a, b, c>>))[1] = nodes[a].type
           /\ TypesOf(Kept(known, <<a, b, c>>))[2] = nodes[b].type
           /\ TypesOf(Kept(known, <<a, b, c>>))[3] = nodes[c].type
           /\ InputsOf(Kept(known, <<a, b, c>>))[1] = words[a]
           /\ InputsOf(Kept(known, <<a, b, c>>))[2] = words[b]
           /\ InputsOf(Kept(known, <<a, b, c>>))[3] = words[c]
           /\ (\A i \in DOMAIN <<a, b, c>> : words[<<a, b, c>>[i]] # Trap) =>
                 words[a] # Trap /\ words[b] # Trap /\ words[c] # Trap
<1>1. /\ a \in Nat /\ a \in 1 .. Len(nodes) /\ b \in Nat /\ b \in 1 .. Len(nodes)
      /\ c \in Nat /\ c \in 1 .. Len(nodes)
  BY InputFacts
<1>2. /\ DOMAIN <<a, b, c>> = {1, 2, 3}
      /\ <<a, b, c>>[1] = a /\ <<a, b, c>>[2] = b /\ <<a, b, c>>[3] = c
  OBVIOUS
<1>3. Kept(known, <<a, b, c>>).inputs = <<a, b, c>>
  BY DEF Kept
<1> DEFINE node == Kept(known, <<a, b, c>>)
           inputs == <<a, b, c>>
<1>4. /\ \A i \in {1, 2, 3} : TypesOf(node)[i] = nodes[inputs[i]].type
      /\ \A i \in {1, 2, 3} : InputsOf(node)[i] = words[inputs[i]]
  <2>1. node.inputs = inputs /\ DOMAIN inputs = {1, 2, 3}
    BY <1>2, <1>3
  <2> HIDE DEF node, inputs
  <2> QED
    BY <2>1 DEF TypesOf, InputsOf
<1>5. inputs \in Seq(Nat)
  BY <1>1
<1>6. /\ inputs[1] = a /\ inputs[2] = b /\ inputs[3] = c /\ DOMAIN inputs = {1, 2, 3}
  BY <1>2
<1> HIDE DEF node, inputs
<1>7. /\ \A i \in DOMAIN inputs : inputs[i] \in 1 .. Len(nodes)
      /\ TypesOf(node)[1] = nodes[a].type /\ TypesOf(node)[2] = nodes[b].type
      /\ TypesOf(node)[3] = nodes[c].type /\ InputsOf(node)[1] = words[a]
      /\ InputsOf(node)[2] = words[b] /\ InputsOf(node)[3] = words[c]
  BY <1>1, <1>4, <1>6
<1>8. (\A i \in DOMAIN inputs : words[inputs[i]] # Trap) =>
         words[a] # Trap /\ words[b] # Trap /\ words[c] # Trap
  BY <1>6
<1> QED
  BY <1>5, <1>7, <1>8 DEF node, inputs

LEMMA UnaryKeeps ==
    ASSUME IInv, NEW operator, NEW width, NEW a \in Ids, Unary(operator, width, a),
           \/ operator \in BitCounts /\ width = 0
           \/ operator = "extend_s" /\ width \in Narrow
    PROVE  IInv'
<1> DEFINE known == UnaryNode(operator, width, Facts(a))
           node == Kept(known, <<a>>)
           t == nodes[a].type
           bits == UnaryRequiredBits(t, operator, width, requiredBits[a])
           r == UnaryInstruction(t, operator, width, words[a])
<1>1. t \in {I32, I64} /\ t \in Nat /\ t > 0 /\ t <= I64 /\ Valid(t, requiredBits[a])
  BY InputFacts
<1>2. known = [kind |-> "unary", operator |-> operator, value |-> width, type |-> t,
               inputs |-> <<Facts(a)>>, bits |-> bits, canSpeculate |-> TRUE]
  BY InputFacts DEF UnaryNode, Node
<1>3. node = [kind |-> "unary", operator |-> operator, value |-> width, type |-> t,
              inputs |-> <<a>>]
  BY <1>2 DEF Kept
<1>4. node \in KeptNodes
  <2>0. "unary" \in Kinds /\ operator \in Operators
    BY DEF Kinds, Operators
  <2>1. width \in Int
    <3>1. CASE width = 0
      BY <3>1
    <3>2. CASE width \in Narrow
      BY <3>2, WidthFacts
    <3> QED
      BY <3>1, <3>2
  <2> HIDE DEF node
  <2> QED
    BY <1>1, <1>3, <2>0, <2>1, OneInput, KeptNodeType
<1>5. Instruction(node, TypesOf(node), InputsOf(node)) = r
  BY <1>3, OneInput DEF Instruction
<1>6. ASSUME WellTyped(node, TypesOf(node))
      PROVE  /\ Valid(t, bits)
             /\ words[a] # Trap => r \in Word(t) /\ Suffices(bits, t, r)
  <2>1. CASE operator \in BitCounts
    <3>1. r = EvaluateBitCount(operator, t, words[a]) /\ bits = ZeroExtendedRequiredBits(t, BitLength(t))
      BY <2>1 DEF UnaryInstruction, UnaryRequiredBits, BitCounts
    <3>2. words[a] # Trap => words[a] \in Word(t)
      BY InputFacts
    <3> HIDE DEF r, bits, t
    <3>3. 0 \in Word(t)
      BY <1>1, PowerStep DEF Word
    <3> QED
      BY <1>1, <2>1, <3>1, <3>2, <3>3, BitCountSuffices
  <2>2. CASE operator = "extend_s" /\ width \in Narrow
    <3>1. t = I32
      <4>1. TypesOf(node)[1] = t
        BY OneInput
      <4> QED
        BY <1>3, <1>6, <2>2, <4>1 DEF WellTyped
    <3>2. /\ bits = ExtendRequiredBits(t, width, requiredBits[a], "sign")
          /\ r = SignedInteger(width, words[a]) % 2^t
      BY <2>2, <3>1 DEF UnaryInstruction, UnaryRequiredBits
    <3>3. width \in Nat /\ 0 < width /\ width <= t
      BY <2>2, <3>1, WidthFacts
    <3>4. words[a] # Trap => Operand(t, requiredBits[a], words[a])
      BY InputFacts
    <3>5. Valid(t, bits)
      <4>1. bits = ClampRequiredBits(t, requiredBits[a].unsigned, requiredBits[a].signed)
            \/ bits = ClampRequiredBits(t, t, Least(width, requiredBits[a].signed))
        <5>1. requiredBits[a].unsigned \in Int
          BY <1>1 DEF Valid
        <5> QED
          BY <3>2, <3>3, <5>1 DEF ExtendRequiredBits, SignExtendedRequiredBits
      <4>2. /\ requiredBits[a].unsigned \in Int /\ requiredBits[a].signed \in Int
            /\ Least(width, requiredBits[a].signed) \in Int /\ t \in Int
        BY <1>1, <3>3 DEF Valid, Least
      <4> HIDE DEF bits, t
      <4> QED
        BY <1>1, <4>1, <4>2, ClampIsValid
    <3>6. ASSUME words[a] # Trap
          PROVE  r \in Word(t) /\ Suffices(bits, t, r)
      <4> HIDE DEF t, bits, r
      <4> QED
        BY <1>1, <3>2, <3>3, <3>4, <3>6, SignExtensionSuffices DEF Operand
    <3> QED
      BY <3>5, <3>6
  <2> QED
    BY <2>1, <2>2
<1> HIDE DEF r, bits, t
<1>7. ASSUME WellTyped(node, TypesOf(node))
      PROVE  Sound(known, <<a>>, Execution(node, TypesOf(node), InputsOf(node)))
  <2>1. Trap \notin Word(t)
    BY DEF Trap, Word
  <2>2. (\A i \in DOMAIN <<a>> : words[<<a>>[i]] # Trap) =>
           /\ r \in {Trap} \cup Word(known.type)
           /\ r # Trap => Suffices(known.bits, known.type, r)
           /\ known.canSpeculate => r # Trap
    BY <1>2, <1>6, <1>7, <2>1, OneInput
  <2>3. /\ known.kind \notin {"const", "unreachable", "parameter"} /\ Valid(known.type, known.bits)
        /\ \A i \in DOMAIN <<a>> : <<a>>[i] \in 1 .. Len(nodes)
    BY <1>2, <1>6, <1>7, OneInput
  <2> HIDE DEF known
  <2> QED
    BY <1>4, <1>5, <1>7, <2>2, <2>3, OperationIsSound
<1> QED
  BY <1>7, InternKeeps DEF Unary

\* A division that may be executed early does not trap.
LEMMA SpeculatedDivision ==
    ASSUME IInv, NEW operator \in BinaryOperators, NEW a \in Ids, NEW b \in Ids,
           words[a] # Trap, words[b] # Trap, nodes[b].type = nodes[a].type,
           CanSpeculateIntegerBinary(nodes[a].type, operator, Facts(a), Facts(b))
    PROVE  BinaryInstruction(nodes[a].type, operator, words[a], words[b]) # Trap
<1> DEFINE t == nodes[a].type
           x == words[a]
           y == words[b]
           h == 2^(t - 1)
           p == 2^t
           divisor == IntegerConstant(Facts(b))
           dividend == IntegerConstant(Facts(a))
           signedX == SignedInteger(t, x)
           signedY == SignedInteger(t, y)
<1>1. /\ t \in Nat /\ t > 0 /\ Operand(t, requiredBits[a], x) /\ Operand(t, requiredBits[b], y)
      /\ divisor \in {Undefined, y} /\ dividend \in {Undefined, x}
      /\ Facts(a).bits = requiredBits[a] /\ Valid(t, requiredBits[a])
  BY InputFacts
<1> SUFFICES ASSUME BinaryInstruction(t, operator, x, y) = Trap
             PROVE  FALSE
  OBVIOUS
<1>2. x \in Word(t) /\ y \in Word(t) /\ x \in Nat /\ y \in Nat
  BY <1>1, OperandFacts
<1>3. operator \in UnsafeOperators
  BY <1>1, <1>2, BinaryWord
<1>4. divisor = y /\ y # 0
  BY <1>1, <1>3 DEF CanSpeculateIntegerBinary
<1>5. /\ p \in Nat /\ h \in Nat /\ h > 0 /\ p = 2 * h /\ x < p /\ y < p
      /\ signedX = (IF x < h THEN x ELSE x - p) /\ signedY = (IF y < h THEN y ELSE y - p)
  <2> HIDE DEF t, x, y
  <2> QED
    BY <1>1, <1>2, TopBit, SignedOfWord DEF Word
<1>6. operator = "div_s" /\ signedY = -1 /\ x = h
  <2> HIDE DEF t, x, y, h, signedY
  <2>1. CASE operator = "div_s"
    <3> DEFINE q == Quotient(signedX, signedY) % p
    <3>1. q \in Word(t)
      <4>1. signedX \in Int /\ signedY \in Int /\ signedY # 0
        BY <1>1, <1>2, <1>4, SignedZero DEF signedY
      <4>2. Quotient(signedX, signedY) \in Int
        BY <4>1, SignedDivisionType
      <4> QED
        BY <1>1, <4>2, WrappedIsWord
    <3>2. q # Trap
      BY <3>1 DEF Trap, Word
    <3>3. BinaryInstruction(t, operator, x, y) =
            IF y = 0 \/ (signedY = -1 /\ x = h) THEN Trap ELSE q
      BY <2>1 DEF BinaryInstruction, signedY, h
    <3> HIDE DEF q
    <3> QED
      BY <1>4, <2>1, <3>2, <3>3
  <2>2. CASE operator = "rem_s"
    <3> DEFINE q == Remainder(signedX, signedY) % p
    <3>1. q \in Word(t)
      <4>1. signedX \in Int /\ signedY \in Int /\ signedY # 0
        BY <1>1, <1>2, <1>4, SignedZero DEF signedY
      <4>2. Remainder(signedX, signedY) \in Int
        BY <4>1, SignedDivisionType
      <4> QED
        BY <1>1, <4>2, WrappedIsWord
    <3>2. q # Trap
      BY <3>1 DEF Trap, Word
    <3>3. BinaryInstruction(t, operator, x, y) = IF y = 0 THEN Trap ELSE q
      BY <2>2 DEF BinaryInstruction, signedY
    <3> HIDE DEF q
    <3> QED
      BY <1>4, <3>2, <3>3
  <2>3. CASE operator = "div_u" \/ operator = "rem_u"
    <3>1. BinaryInstruction(t, operator, x, y) \in {x \div y, x % y}
      BY <1>4, <2>3 DEF BinaryInstruction
    <3>2. x \div y \in Nat /\ x % y \in 0 .. y - 1
      BY <1>2, <1>4, DivisionFacts
    <3>3. x \div y # Trap /\ x % y # Trap
      BY <3>2 DEF Trap
    <3> QED
      BY <3>1, <3>3
  <2> QED
    BY <1>3, <2>1, <2>2, <2>3 DEF UnsafeOperators
<1>7. y = AllBits(t)
  <2>1. y = p - 1
    <3> HIDE DEF p, h, signedX, signedY
    <3> QED
      BY <1>2, <1>5, <1>6
  <2> QED
    BY <2>1 DEF AllBits
<1>8. dividend = Undefined /\ ~MayContainSignedMinimum(requiredBits[a], t)
  <2>1. operator \in UnsafeOperators =>
          /\ divisor \notin {Undefined, 0}
          /\ operator = "div_s" /\ divisor = AllBits(t) =>
                IF dividend = Undefined THEN ~MayContainSignedMinimum(Facts(a).bits, t)
                ELSE dividend # h
    BY DEF CanSpeculateIntegerBinary
  <2>2. Facts(a).bits = requiredBits[a]
    BY <1>1
  <2> HIDE DEF divisor, dividend, x, y, h, t
  <2> QED
    BY <1>1, <1>3, <1>4, <1>6, <1>7, <2>1, <2>2
<1> DEFINE u == requiredBits[a].unsigned
           s == requiredBits[a].signed
<1>9. /\ u \in Nat /\ u <= t /\ x < 2^u
      /\ s \in Nat /\ s > 0 /\ s <= t /\ Holds(s, signedX)
  BY <1>1, OperandFacts
<1>10. u # t \/ s # t
  BY <1>8 DEF MayContainSignedMinimum
<1>11. signedX = -h
  <2> HIDE DEF p, h, signedX, signedY, x
  <2> QED
    BY <1>2, <1>5, <1>6
<1> HIDE DEF u, s, x, signedX, t
<1>12. CASE u # t
  <2>1. t - 1 \in Nat /\ u <= t - 1
    BY <1>1, <1>9, <1>12
  <2>2. 2^u <= h /\ 2^u \in Nat
    BY <1>9, <2>1, PowersGrow, PowerStep
  <2> HIDE DEF h
  <2> QED
    BY <1>5, <1>6, <1>9, <2>2
<1>13. CASE s # t
  <2> DEFINE m == s - 1
             g == 2^m
  <2>1. m \in Nat /\ t - 1 \in Nat /\ m + 1 \in Nat /\ m + 1 <= t - 1
    BY <1>1, <1>9, <1>13
  <2>2. g \in Nat /\ g > 0 /\ 2^(m + 1) = 2 * g
    <3> HIDE DEF m
    <3> QED
      BY <2>1, PowerStep
  <2>3. 2^(m + 1) <= h
    <3> HIDE DEF m
    <3> QED
      BY <2>1, PowersGrow
  <2>4. -g <= signedX
    BY <1>9 DEF Holds
  <2> HIDE DEF g, h, m
  <2> QED
    BY <1>5, <1>11, <2>2, <2>3, <2>4
<1> QED
  BY <1>10, <1>12, <1>13

LEMMA BinaryKeeps ==
    ASSUME IInv, NEW operator \in BinaryOperators, NEW a \in Ids, NEW b \in Ids,
           Binary(operator, a, b)
    PROVE  IInv'
<1> DEFINE known == BinaryNode(operator, Facts(a), Facts(b))
           node == Kept(known, <<a, b>>)
           t == nodes[a].type
           constant == IntegerConstant(Facts(b))
           bits == BinaryRequiredBits(t, operator, requiredBits[a], requiredBits[b], constant)
           safe == CanSpeculateIntegerBinary(t, operator, Facts(a), Facts(b))
           r == BinaryInstruction(t, operator, words[a], words[b])
<1>1. /\ t \in {I32, I64} /\ t \in Nat /\ t > 0 /\ t \in Int
      /\ Valid(t, requiredBits[a]) /\ Valid(nodes[b].type, requiredBits[b])
  BY InputFacts
<1>2. known = [kind |-> "binary", operator |-> operator, value |-> 0, type |-> t,
               inputs |-> <<Facts(a), Facts(b)>>, bits |-> bits, canSpeculate |-> safe]
  BY InputFacts DEF BinaryNode, Node
<1>3. node = [kind |-> "binary", operator |-> operator, value |-> 0, type |-> t,
              inputs |-> <<a, b>>]
  BY <1>2 DEF Kept
<1>4. node \in KeptNodes
  <2>1. "binary" \in Kinds /\ operator \in Operators /\ 0 \in Int \cup Index
    BY DEF Kinds, Operators
  <2> HIDE DEF node
  <2> QED
    BY <1>1, <1>3, <2>1, TwoInputs, KeptNodeType
<1>5. Instruction(node, TypesOf(node), InputsOf(node)) = r
  BY <1>3, TwoInputs DEF Instruction
<1>6. ASSUME WellTyped(node, TypesOf(node))
      PROVE  nodes[b].type = t
  <2>1. TypesOf(node)[1] = t /\ TypesOf(node)[2] = nodes[b].type
    BY TwoInputs
  <2>2. TypesOf(node)[1] = TypesOf(node)[2]
    BY <1>3, <1>6 DEF WellTyped
  <2> QED
    BY <2>1, <2>2
<1>7. ASSUME nodes[b].type = t
      PROVE  Valid(t, bits)
  <2> DEFINE A == requiredBits[a]
             B == requiredBits[b]
  <2>1. Valid(t, A) /\ Valid(t, B)
    BY <1>1, <1>7
  <2>2. \E u \in Int, s \in Int : bits = ClampRequiredBits(t, u, s) \/ bits = UnknownRequiredBits(t)
    <3>1. /\ A.unsigned \in Int /\ B.unsigned \in Int /\ A.signed \in Int /\ B.signed \in Int
      BY <2>1 DEF Valid
    <3> DEFINE c == constant % t
    <3>2. /\ Greatest(A.unsigned, B.unsigned) \in Int /\ Least(A.unsigned, B.unsigned) \in Int
          /\ Greatest(A.signed, B.signed) \in Int
      BY <3>1 DEF Greatest, Least
    <3>3. constant # Undefined => A.unsigned + c \in Int /\ Greatest(1, A.unsigned - c) \in Int
      <4>1. CASE words[b] = Trap
        <5>1. constant = Undefined
          <6>1. nodes[b].kind # "const"
            BY <4>1, InputFacts DEF IInv, NodeOK
          <6> QED
            BY <6>1, InputFacts DEF IntegerConstant
        <5> QED
          BY <5>1
      <4>2. CASE words[b] # Trap
        <5>1. constant \in {Undefined, words[b]} /\ Operand(t, B, words[b])
          BY <1>7, <4>2, InputFacts
        <5>2. constant # Undefined => constant \in Nat
          BY <1>1, <5>1, OperandFacts
        <5>3. constant # Undefined => c \in 0 .. t - 1
          BY <1>1, <5>2, DivisionFacts
        <5> HIDE DEF c
        <5> QED
          BY <1>1, <3>1, <5>3 DEF Greatest
      <4> QED
        BY <4>1, <4>2
    <3>4. \/ bits = ClampRequiredBits(t, Greatest(A.unsigned, B.unsigned), Greatest(A.signed, B.signed))
          \/ bits = ClampRequiredBits(t, Least(A.unsigned, B.unsigned), Greatest(A.signed, B.signed))
          \/ constant # Undefined /\ bits = ClampRequiredBits(t, A.unsigned + c, t)
          \/ constant # Undefined /\ bits = ClampRequiredBits(t, Greatest(1, A.unsigned - c), t)
          \/ bits = ClampRequiredBits(t, A.unsigned, t)
          \/ bits = ClampRequiredBits(t, B.unsigned, t)
          \/ bits = UnknownRequiredBits(t)
      BY DEF BinaryRequiredBits, ZeroExtendedRequiredBits
    <3> HIDE DEF A, B, bits, constant, c, t
    <3> QED
      BY <1>1, <3>1, <3>2, <3>3, <3>4
  <2> HIDE DEF bits, t
  <2> QED
    BY <1>1, <2>2, ClampIsValid, UnknownSuffices
<1>8. ASSUME nodes[b].type = t, words[a] # Trap, words[b] # Trap
      PROVE  /\ r \in {Trap} \cup Word(t)
             /\ r # Trap => Suffices(bits, t, r)
             /\ safe => r # Trap
  <2>1. /\ Operand(t, requiredBits[a], words[a]) /\ Operand(t, requiredBits[b], words[b])
        /\ constant \in {Undefined, words[b]}
    BY <1>8, InputFacts
  <2>2. words[a] \in Word(t) /\ words[b] \in Word(t)
    BY <2>1 DEF Operand
  <2>3. safe => r # Trap
    BY <1>8, SpeculatedDivision
  <2>4. r \in {Trap} \cup Word(t)
    <3> HIDE DEF t
    <3> QED
      BY <1>1, <2>2, BinaryWord DEF r
  <2>5. r # Trap => Suffices(bits, t, r)
    <3> HIDE DEF t, constant
    <3> QED
      BY <1>1, <2>1, BinarySuffices DEF bits, r
  <2> QED
    BY <2>3, <2>4, <2>5
<1> HIDE DEF r, bits, t, safe
<1>9. ASSUME WellTyped(node, TypesOf(node))
      PROVE  Sound(known, <<a, b>>, Execution(node, TypesOf(node), InputsOf(node)))
  <2>1. (\A i \in DOMAIN <<a, b>> : words[<<a, b>>[i]] # Trap) =>
           /\ r \in {Trap} \cup Word(known.type)
           /\ r # Trap => Suffices(known.bits, known.type, r)
           /\ known.canSpeculate => r # Trap
    BY <1>2, <1>6, <1>8, <1>9, TwoInputs
  <2>2. /\ known.kind \notin {"const", "unreachable", "parameter"} /\ Valid(known.type, known.bits)
        /\ \A i \in DOMAIN <<a, b>> : <<a, b>>[i] \in 1 .. Len(nodes)
    BY <1>2, <1>6, <1>7, <1>9, TwoInputs
  <2> HIDE DEF known
  <2> QED
    BY <1>4, <1>5, <1>9, <2>1, <2>2, OperationIsSound
<1> QED
  BY <1>9, InternKeeps DEF Binary

\* A comparison is 0 or 1.
LEMMA TruthSuffices ==
    ASSUME NEW r \in {0, 1}
    PROVE  /\ r \in Word(I32) /\ r # Trap
           /\ Valid(I32, ZeroExtendedRequiredBits(I32, 1))
           /\ Suffices(ZeroExtendedRequiredBits(I32, 1), I32, r)
<1>1. I32 \in Nat /\ I32 > 0 /\ I32 \in Int /\ 1 <= I32 /\ 1 \in Nat /\ 1 \in Int
  BY WidthFacts
<1> DEFINE one == Greatest(1, 1)
<1>2. one = 1
  BY DEF Greatest
<1> HIDE DEF one
<1>3. one < 2^one /\ I32 < 2^I32 /\ 2^one \in Nat /\ 2^I32 \in Nat
  BY <1>1, <1>2, PowersExceed, PowerStep
<1>4. r < 2^Greatest(1, 1) /\ r \in Word(I32)
  BY <1>1, <1>2, <1>3 DEF Word, one
<1> QED
  BY <1>1, <1>4, ZeroExtensionSuffices DEF Trap

LEMMA CompareKeeps ==
    ASSUME IInv, NEW operator \in Comparisons, NEW a \in Ids, NEW b \in Ids,
           Compare(operator, a, b)
    PROVE  IInv'
<1> DEFINE known == CompareNode(operator, Facts(a), Facts(b))
           node == Kept(known, <<a, b>>)
           bits == ZeroExtendedRequiredBits(I32, 1)
           r == Instruction(node, TypesOf(node), InputsOf(node))
<1>1. known = [kind |-> "compare", operator |-> operator, value |-> 0, type |-> I32,
               inputs |-> <<Facts(a), Facts(b)>>, bits |-> bits, canSpeculate |-> TRUE]
  BY DEF CompareNode, Node
<1>2. node = [kind |-> "compare", operator |-> operator, value |-> 0, type |-> I32,
              inputs |-> <<a, b>>]
  BY <1>1 DEF Kept
<1>3. node \in KeptNodes
  <2>1. "compare" \in Kinds /\ operator \in Operators /\ 0 \in Int \cup Index /\ I32 \in {I32, I64}
    BY DEF Kinds, Operators
  <2> HIDE DEF node
  <2> QED
    BY <1>2, <2>1, TwoInputs, KeptNodeType
<1>4. r \in {0, 1}
  <2>1. node.kind = "compare"
    BY <1>2
  <2> HIDE DEF node
  <2> QED
    BY <2>1 DEF Instruction
<1>5. ASSUME WellTyped(node, TypesOf(node))
      PROVE  Sound(known, <<a, b>>, Execution(node, TypesOf(node), InputsOf(node)))
  <2>1. r \in Word(I32) /\ r # Trap /\ Valid(I32, bits) /\ Suffices(bits, I32, r)
    <3> HIDE DEF r
    <3> QED
      BY <1>4, TruthSuffices
  <2> HIDE DEF bits
  <2>2. /\ known.kind \notin {"const", "unreachable", "parameter"} /\ Valid(known.type, known.bits)
        /\ \A i \in DOMAIN <<a, b>> : <<a, b>>[i] \in 1 .. Len(nodes)
        /\ known.type = I32 /\ known.bits = bits
    BY <1>1, <2>1, TwoInputs
  <2> HIDE DEF known
  <2> QED
    BY <1>3, <1>5, <2>1, <2>2, OperationIsSound
<1> QED
  BY <1>5, InternKeeps DEF Compare

LEMMA EqzKeeps ==
    ASSUME IInv, NEW a \in Ids, Eqz(a)
    PROVE  IInv'
<1> DEFINE known == EqzNode(Facts(a))
           node == Kept(known, <<a>>)
           bits == ZeroExtendedRequiredBits(I32, 1)
           r == Instruction(node, TypesOf(node), InputsOf(node))
<1>1. known = [kind |-> "eqz", operator |-> "none", value |-> 0, type |-> I32,
               inputs |-> <<Facts(a)>>, bits |-> bits, canSpeculate |-> TRUE]
  BY DEF EqzNode, Node
<1>2. node = [kind |-> "eqz", operator |-> "none", value |-> 0, type |-> I32, inputs |-> <<a>>]
  BY <1>1 DEF Kept
<1>3. node \in KeptNodes
  <2>1. "eqz" \in Kinds /\ "none" \in Operators /\ 0 \in Int \cup Index /\ I32 \in {I32, I64}
    BY DEF Kinds, Operators
  <2> HIDE DEF node
  <2> QED
    BY <1>2, <2>1, OneInput, KeptNodeType
<1>4. r \in {0, 1}
  <2>1. node.kind = "eqz"
    BY <1>2
  <2> HIDE DEF node
  <2> QED
    BY <2>1 DEF Instruction
<1>5. ASSUME WellTyped(node, TypesOf(node))
      PROVE  Sound(known, <<a>>, Execution(node, TypesOf(node), InputsOf(node)))
  <2>1. r \in Word(I32) /\ r # Trap /\ Valid(I32, bits) /\ Suffices(bits, I32, r)
    <3> HIDE DEF r
    <3> QED
      BY <1>4, TruthSuffices
  <2> HIDE DEF bits
  <2>2. /\ known.kind \notin {"const", "unreachable", "parameter"} /\ Valid(known.type, known.bits)
        /\ \A i \in DOMAIN <<a>> : <<a>>[i] \in 1 .. Len(nodes)
        /\ known.type = I32 /\ known.bits = bits
    BY <1>1, <2>1, OneInput
  <2> HIDE DEF known
  <2> QED
    BY <1>3, <1>5, <2>1, <2>2, OperationIsSound
<1> QED
  BY <1>5, InternKeeps DEF Eqz

LEMMA ConvertKeeps ==
    ASSUME IInv, NEW operator \in Conversions, NEW a \in Ids, Convert(operator, a)
    PROVE  IInv'
<1> DEFINE known == ConvertNode(operator, Facts(a))
           node == Kept(known, <<a>>)
           s == nodes[a].type
           t == ConvertedType(operator)
           bits == ConversionRequiredBits(operator, requiredBits[a])
           r == ConvertInstruction(operator, words[a])
<1>1. s \in Nat /\ s > 0 /\ Valid(s, requiredBits[a])
  BY InputFacts
<1>2. t \in {I32, I64} /\ t \in Nat /\ t > 0 /\ t \in Int
  BY WidthFacts DEF ConvertedType
<1>3. known = [kind |-> "convert", operator |-> operator, value |-> 0, type |-> t,
               inputs |-> <<Facts(a)>>, bits |-> bits, canSpeculate |-> TRUE]
  BY InputFacts DEF ConvertNode, Node
<1>4. node = [kind |-> "convert", operator |-> operator, value |-> 0, type |-> t, inputs |-> <<a>>]
  BY <1>3 DEF Kept
<1>5. node \in KeptNodes
  <2>1. "convert" \in Kinds /\ operator \in Operators /\ 0 \in Int \cup Index
    BY DEF Kinds, Operators
  <2> HIDE DEF node, t
  <2> QED
    BY <1>2, <1>4, <2>1, OneInput, KeptNodeType
<1>6. Instruction(node, TypesOf(node), InputsOf(node)) = r
  BY <1>4, OneInput DEF Instruction
<1>7. ASSUME WellTyped(node, TypesOf(node))
      PROVE  s = IF operator = "wrap_i64" THEN I64 ELSE I32
  <2>1. TypesOf(node)[1] = s
    BY OneInput
  <2> QED
    BY <1>4, <1>7, <2>1 DEF WellTyped
<1>8. ASSUME s = IF operator = "wrap_i64" THEN I64 ELSE I32
      PROVE  /\ Valid(t, bits)
             /\ words[a] # Trap => r \in Word(t) /\ Suffices(bits, t, r)
  <2> DEFINE A == requiredBits[a]
             x == words[a]
  <2>0. words[a] # Trap => Operand(s, A, x)
    BY InputFacts
  <2>1. A.unsigned \in Int /\ A.signed \in Int
    BY <1>1 DEF Valid
  <2>2. CASE operator = "wrap_i64"
    <3>1. /\ s = I64 /\ t = I32 /\ r = x % 2^I32 /\ bits = TruncateRequiredBits(I32, A)
          /\ bits = ClampRequiredBits(I32, A.unsigned, A.signed)
      BY <1>8, <2>2
      DEF ConvertedType, ConvertInstruction, ConversionRequiredBits, TruncateRequiredBits
    <3>2. Valid(t, bits)
      <4> HIDE DEF bits, t, A
      <4> QED
        BY <1>2, <2>1, <3>1, ClampIsValid
    <3>3. I32 \in Nat /\ I64 \in Nat /\ 0 < I32 /\ I32 <= I64
      BY WidthFacts
    <3>4. ASSUME x # Trap
          PROVE  r \in Word(t) /\ Suffices(bits, t, r)
      <4>1. x \in Word(I64) /\ Valid(I64, A) /\ Suffices(A, I64, x)
        BY <2>0, <3>1, <3>4 DEF Operand
      <4> HIDE DEF bits, t, A, x, r, s
      <4> QED
        BY <3>1, <3>3, <4>1, WrapSuffices
    <3> QED
      BY <3>2, <3>4
  <2>3. CASE operator = "extend_i32_u"
    <3> DEFINE n == Least(I32, A.unsigned)
    <3>1. /\ s = I32 /\ t = I64 /\ r = x /\ bits = ZeroExtendedRequiredBits(I64, n)
      BY <1>8, <2>3
      DEF ConvertedType, ConvertInstruction, ConversionRequiredBits, ExtendRequiredBits
    <3>2. n = A.unsigned /\ n \in Int /\ n \in Nat /\ n > 0 /\ n <= I32 /\ Greatest(1, n) = n
      <4>1. A.unsigned \in 1 .. I32 /\ I32 \in Nat
        BY <1>1, <3>1 DEF Valid
      <4> DEFINE u == A.unsigned
      <4> HIDE DEF A, u
      <4> QED
        BY <4>1 DEF Least, Greatest, u
    <3>3. Valid(t, bits)
      <4> HIDE DEF bits, t, n, A
      <4> QED
        BY <1>2, <3>1, <3>2, ZeroExtensionSuffices
    <3>4. ASSUME x # Trap
          PROVE  r \in Word(t) /\ Suffices(bits, t, r)
      <4>1. x \in Nat /\ x < 2^n /\ I64 \in Nat /\ n < I64
        BY <1>1, <2>0, <3>1, <3>2, <3>4, OperandFacts, WidthFacts
      <4> HIDE DEF bits, t, A, x, r, n, s
      <4>2. x \in Word(I64)
        BY <3>2, <4>1, SignedOfSmall
      <4>3. x < 2^Greatest(1, n)
        BY <3>2, <4>1
      <4> QED
        BY <1>2, <3>1, <3>2, <4>2, <4>3, ZeroExtensionSuffices
    <3> QED
      BY <3>3, <3>4
  <2>4. CASE operator = "extend_i32_s"
    <3>1. /\ s = I32 /\ t = I64 /\ r = SignedInteger(I32, x) % 2^I64
          /\ bits = ExtendRequiredBits(I64, I32, A, "sign")
      BY <1>8, <2>4 DEF ConvertedType, ConvertInstruction, ConversionRequiredBits
    <3>2. I32 \in Nat /\ I64 \in Nat /\ 0 < I32 /\ I32 <= I32 /\ I32 <= I64
      BY WidthFacts
    <3>3. Valid(t, bits)
      <4>1. \/ bits = ClampRequiredBits(I64, A.unsigned, A.signed)
            \/ bits = ClampRequiredBits(I64, I64, Least(I32, A.signed))
        BY <2>1, <3>1, <3>2 DEF ExtendRequiredBits, SignExtendedRequiredBits
      <4>2. Least(I32, A.signed) \in Int /\ I64 \in Int
        BY <2>1, <3>2 DEF Least
      <4> HIDE DEF bits, t, A
      <4> QED
        BY <1>2, <2>1, <3>1, <4>1, <4>2, ClampIsValid
    <3>4. ASSUME x # Trap
          PROVE  r \in Word(t) /\ Suffices(bits, t, r)
      <4>1. x \in Word(I32) /\ Valid(I32, A) /\ Suffices(A, I32, x)
        BY <2>0, <3>1, <3>4 DEF Operand
      <4> HIDE DEF bits, t, A, x, r, s
      <4> QED
        BY <3>1, <3>2, <4>1, SignExtensionSuffices
    <3> QED
      BY <3>3, <3>4
  <2> QED
    BY <2>2, <2>3, <2>4 DEF Conversions
<1> HIDE DEF r, bits, t, s
<1>9. ASSUME WellTyped(node, TypesOf(node))
      PROVE  Sound(known, <<a>>, Execution(node, TypesOf(node), InputsOf(node)))
  <2>1. Trap \notin Word(t)
    BY DEF Trap, Word
  <2>2. (\A i \in DOMAIN <<a>> : words[<<a>>[i]] # Trap) =>
           /\ r \in {Trap} \cup Word(known.type)
           /\ r # Trap => Suffices(known.bits, known.type, r)
           /\ known.canSpeculate => r # Trap
    BY <1>3, <1>7, <1>8, <1>9, <2>1, OneInput
  <2>3. /\ known.kind \notin {"const", "unreachable", "parameter"} /\ Valid(known.type, known.bits)
        /\ \A i \in DOMAIN <<a>> : <<a>>[i] \in 1 .. Len(nodes)
    BY <1>3, <1>7, <1>8, <1>9, OneInput
  <2> HIDE DEF known
  <2> QED
    BY <1>5, <1>6, <1>9, <2>2, <2>3, OperationIsSound
<1> QED
  BY <1>9, InternKeeps DEF Convert

LEMMA SelectKeeps ==
    ASSUME IInv, NEW condition \in Ids, NEW a \in Ids, NEW b \in Ids, Select(condition, a, b)
    PROVE  IInv'
<1> DEFINE known == SelectNode(Facts(condition), Facts(a), Facts(b))
           inputs == <<a, b, condition>>
           node == Kept(known, inputs)
           t == nodes[a].type
           joined == {requiredBits[a], requiredBits[b]}
           bits == JoinRequiredBits(t, joined)
           r == IF words[condition] # 0 THEN words[a] ELSE words[b]
<1>1. t \in {I32, I64} /\ t \in Nat /\ t > 0 /\ Valid(t, requiredBits[a])
  BY InputFacts
<1>2. known = [kind |-> "select", operator |-> "none", value |-> 0, type |-> t,
               inputs |-> <<Facts(a), Facts(b), Facts(condition)>>, bits |-> bits,
               canSpeculate |-> TRUE]
  BY InputFacts DEF SelectNode, Node
<1>3. node = [kind |-> "select", operator |-> "none", value |-> 0, type |-> t, inputs |-> inputs]
  BY <1>2 DEF Kept
<1>4. node \in KeptNodes
  <2>1. "select" \in Kinds /\ "none" \in Operators /\ 0 \in Int \cup Index
    BY DEF Kinds, Operators
  <2>2. inputs \in Seq(Nat)
    BY ThreeInputs
  <2> HIDE DEF node, inputs
  <2> QED
    BY <1>1, <1>3, <2>1, <2>2, KeptNodeType
<1>5. Instruction(node, TypesOf(node), InputsOf(node)) = r
  <2>1. InputsOf(node)[1] = words[a] /\ InputsOf(node)[2] = words[b] /\ InputsOf(node)[3] = words[condition]
    BY ThreeInputs
  <2>2. node.kind = "select"
    BY <1>3
  <2> HIDE DEF node
  <2> QED
    BY <2>1, <2>2 DEF Instruction
<1>6. ASSUME WellTyped(node, TypesOf(node))
      PROVE  nodes[b].type = t
  <2>1. TypesOf(node)[1] = t /\ TypesOf(node)[2] = nodes[b].type
    BY ThreeInputs
  <2>2. TypesOf(node)[1] = TypesOf(node)[2]
    BY <1>3, <1>6 DEF WellTyped
  <2> QED
    BY <2>1, <2>2
<1>7. ASSUME nodes[b].type = t
      PROVE  /\ Valid(t, bits)
             /\ words[a] # Trap /\ words[b] # Trap =>
                   r # Trap /\ r \in Word(t) /\ Suffices(bits, t, r)
  <2>1. \A j \in joined : Valid(t, j)
    BY <1>7, InputFacts
  <2>2. words[a] # Trap /\ words[b] # Trap =>
           /\ words[a] \in Word(t) /\ Suffices(requiredBits[a], t, words[a])
           /\ words[b] \in Word(t) /\ Suffices(requiredBits[b], t, words[b])
    BY <1>7, InputFacts DEF Operand
  <2>3. requiredBits[a] \in joined /\ requiredBits[b] \in joined
    OBVIOUS
  <2>4. Valid(t, bits)
    <3> HIDE DEF t, joined
    <3> QED
      BY <1>1, <2>1, JoinSuffices
  <2>5. ASSUME words[a] # Trap, words[b] # Trap
        PROVE  Suffices(bits, t, words[a]) /\ Suffices(bits, t, words[b])
    <3> HIDE DEF t, joined
    <3> QED
      BY <1>1, <2>1, <2>2, <2>3, <2>5, JoinSuffices
  <2> QED
    BY <2>2, <2>4, <2>5
<1>8. /\ \A i \in DOMAIN inputs : inputs[i] \in 1 .. Len(nodes)
      /\ (\A i \in DOMAIN inputs : words[inputs[i]] # Trap) => words[a] # Trap /\ words[b] # Trap
  BY ThreeInputs
<1> HIDE DEF r, bits, t, inputs
<1>9. ASSUME WellTyped(node, TypesOf(node))
      PROVE  Sound(known, inputs, Execution(node, TypesOf(node), InputsOf(node)))
  <2>1. (\A i \in DOMAIN inputs : words[inputs[i]] # Trap) =>
           /\ r \in {Trap} \cup Word(known.type)
           /\ r # Trap => Suffices(known.bits, known.type, r)
           /\ known.canSpeculate => r # Trap
    BY <1>2, <1>6, <1>7, <1>8, <1>9
  <2>2. known.kind \notin {"const", "unreachable", "parameter"} /\ Valid(known.type, known.bits)
    BY <1>2, <1>6, <1>7, <1>9
  <2> HIDE DEF known
  <2> QED
    BY <1>4, <1>5, <1>8, <1>9, <2>1, <2>2, OperationIsSound
<1> QED
  BY <1>9, InternKeeps DEF Select, inputs

LEMMA RedeclareParameterKeeps ==
    ASSUME IInv, NEW id \in Ids, NEW bits \in Declared[nodes[id].type],
           RedeclareParameter(id, bits)
    PROVE  IInv'
<1> DEFINE type == nodes[id].type
<1>1. /\ nodes' = nodes /\ words' = words /\ cannotSpeculate' = cannotSpeculate
      /\ requiredBits' = [requiredBits EXCEPT ![id] = bits]
      /\ nodes[id].kind = "parameter" /\ Fits(words[id], type, bits)
  BY DEF RedeclareParameter
<1>2. /\ requiredBits \in Seq(BitBounds) /\ Len(requiredBits) = Len(nodes) /\ Len(nodes) \in Nat
      /\ id \in 1 .. Len(nodes) /\ NodeOK(id)
  BY DEF IInv, SequencesOK, Ids
<1>3. type \in Type
  BY <1>1, <1>2 DEF NodeOK
<1>4. Valid(type, bits) /\ (words[id] # Trap => Suffices(bits, type, words[id]))
  <2>1. type \in Nat /\ type > 0 /\ bits \in Declared[type]
    BY <1>3, TypeFacts
  <2>2. Valid(type, bits)
    BY <1>3, DeclaredAssumption DEF Valid
  <2>3. words[id] # Trap => words[id] \in Word(type)
    BY <1>2 DEF NodeOK
  <2> HIDE DEF type
  <2> QED
    BY <1>1, <2>1, <2>2, <2>3, SufficesIsFits
<1>5. bits \in BitBounds
  BY <1>3, <1>4, TypeFacts DEF Valid, BitBounds
<1>6. /\ requiredBits' \in Seq(BitBounds) /\ Len(requiredBits') = Len(nodes)
      /\ \A j \in 1 .. Len(nodes) : requiredBits'[j] = IF j = id THEN bits ELSE requiredBits[j]
  BY <1>1, <1>2, <1>5, ExceptSeq
<1>7. SequencesOK'
  BY <1>1, <1>6 DEF IInv, SequencesOK
<1>8. ASSUME NEW j \in 1 .. Len(nodes)
      PROVE  NodeOK(j)'
  <2>1. NodeOK(j)
    BY DEF IInv
  <2>2. TypesOf(nodes[j])' = TypesOf(nodes[j])
    BY <1>1 DEF TypesOf
  <2>3. WellTyped(nodes[j], TypesOf(nodes[j]))'
    BY <1>1, <2>1, <2>2 DEF NodeOK
  <2>4. CASE j = id
    BY <1>1, <1>4, <1>6, <2>1, <2>3, <2>4 DEF NodeOK
  <2>5. CASE j # id
    BY <1>1, <1>6, <2>1, <2>3, <2>5 DEF NodeOK
  <2> QED
    BY <2>4, <2>5
<1> QED
  BY <1>1, <1>7, <1>8 DEF IInv

LEMMA BuildKeeps ==
    ASSUME IInv, Build
    PROVE  IInv'
<1>1. CASE \E type \in Type : \E value \in Samples[type] : Constant(type, value)
  BY <1>1, ConstantKeeps
<1>2. CASE \E type \in Type : Unreachable(type)
  BY <1>2, UnreachableKeeps
<1>3. CASE \E index \in Index, type \in Type :
              \E bits \in Declared[type], word \in Samples[type] : Parameter(index, type, bits, word)
  BY <1>3, ParameterKeeps
<1>4. CASE \E type \in Type : \E bits \in Declared[type], word \in Samples[type] :
              ProducerOutput(type, bits, word)
  BY <1>4, ProducerOutputKeeps
<1>5. CASE \E type \in Type, results \in SUBSET Ids : \E result \in results :
              JoinOutput(type, results, result)
  BY <1>5, JoinOutputKeeps
<1>6. CASE \E type \in Type : \E word \in Samples[type] : LoopInput(type, word)
  BY <1>6, LoopInputKeeps
<1>7. CASE \E operator \in BitCounts, a \in Ids : Unary(operator, 0, a)
  BY <1>7, UnaryKeeps
<1>8. CASE \E width \in Narrow \ {1}, a \in Ids : Unary("extend_s", width, a)
  BY <1>8, UnaryKeeps
<1>9. CASE \E operator \in BinaryOperators, a, b \in Ids : Binary(operator, a, b)
  BY <1>9, BinaryKeeps
<1>10. CASE \E operator \in Comparisons, a, b \in Ids : Compare(operator, a, b)
  BY <1>10, CompareKeeps
<1>11. CASE \E a \in Ids : Eqz(a)
  BY <1>11, EqzKeeps
<1>12. CASE \E operator \in {"wrap_i64", "extend_i32_u", "extend_i32_s"}, a \in Ids :
               Convert(operator, a)
  BY <1>12, ConvertKeeps DEF Conversions
<1>13. CASE \E condition, a, b \in Ids : Select(condition, a, b)
  BY <1>13, SelectKeeps
<1> QED
  BY <1>1, <1>2, <1>3, <1>4, <1>5, <1>6, <1>7, <1>8, <1>9, <1>10, <1>11, <1>12, <1>13 DEF Build

LEMMA StutterKeeps ==
    ASSUME IInv, UNCHANGED vars
    PROVE  IInv'
<1>1. nodes' = nodes /\ requiredBits' = requiredBits /\ words' = words
      /\ cannotSpeculate' = cannotSpeculate
  BY DEF vars
<1>2. SequencesOK'
  BY <1>1 DEF IInv, SequencesOK
<1>3. ASSUME NEW id \in 1 .. Len(nodes)
      PROVE  NodeOK(id)'
  <2>1. NodeOK(id) /\ TypesOf(nodes[id])' = TypesOf(nodes[id])
    BY <1>1 DEF IInv, TypesOf
  <2>2. WellTyped(nodes[id], TypesOf(nodes[id]))'
    BY <1>1, <2>1 DEF NodeOK
  <2> QED
    BY <1>1, <2>1, <2>2 DEF NodeOK
<1> QED
  BY <1>1, <1>2, <1>3 DEF IInv

LEMMA Inductive == Spec => []IInv
<1>1. IInv /\ [Next]_vars => IInv'
  BY BuildKeeps, RedeclareParameterKeeps, StutterKeeps DEF Next
<1> QED
  BY <1>1, InitOK, PTL DEF Spec

-----------------------------------------------------------------------------
(***************************************************************************)
(* The theorems.                                                           *)
(***************************************************************************)
LEMMA Consequences == IInv => TypeOK /\ RequiredBitsSuffice /\ SpeculationIsSafe
<1> SUFFICES ASSUME IInv
             PROVE  TypeOK /\ RequiredBitsSuffice /\ SpeculationIsSafe
  OBVIOUS
<1>1. /\ Ids = 1 .. Len(nodes) /\ DOMAIN requiredBits = Ids /\ DOMAIN words = Ids
      /\ cannotSpeculate \subseteq Ids
  BY DEF IInv, SequencesOK, Ids
<1>2. \A id \in Ids : NodeOK(id)
  BY <1>1 DEF IInv
<1>3. TypeOK
  <2>1. ASSUME NEW id \in Ids
        PROVE  /\ \A i \in DOMAIN nodes[id].inputs : nodes[id].inputs[i] \in 1 .. id - 1
               /\ WellTyped(nodes[id], TypesOf(nodes[id]))
               /\ ValidBits(nodes[id].type, requiredBits[id])
               /\ words[id] \in {Trap} \cup 0 .. 2^nodes[id].type - 1
    BY <1>2 DEF NodeOK, Valid, Word
  <2> QED
    BY <1>1, <2>1 DEF TypeOK
<1>4. RequiredBitsSuffice
  <2> SUFFICES ASSUME NEW id \in Ids, words[id] # Trap
               PROVE  Fits(words[id], nodes[id].type, requiredBits[id])
    BY DEF RequiredBitsSuffice
  <2> DEFINE t == nodes[id].type
  <2>1. t \in Nat /\ t > 0 /\ Operand(t, requiredBits[id], words[id])
    BY InputFacts
  <2> HIDE DEF t
  <2>2. Fits(words[id], t, requiredBits[id])
    BY <2>1, SufficesIsFits DEF Operand
  <2> QED
    BY <2>2 DEF t
<1>5. SpeculationIsSafe
  BY <1>2 DEF NodeOK, SpeculationIsSafe
<1> QED
  BY <1>3, <1>4, <1>5

\* Whatever the builder is asked for, nodes take operands of their types and the
\* bits derived of a node pass its own assertion (builder.ts #setRequiredBits).
THEOREM ValuesAreWellTyped == Spec => []TypeOK
BY Inductive, Consequences, PTL

\* The bits derived of a node suffice in every execution: for words of 4 to 64
\* bits, every operator, every graph and every order of construction, whatever
\* true things sources are declared to be and whenever parameters are declared anew.
THEOREM BitsAreEnough == Spec => []RequiredBitsSuffice
BY Inductive, Consequences, PTL

\* No instruction that may be executed where nobody wants it traps by itself:
\* neither a division by a constant nor one whose dividend is known to be small.
THEOREM SpeculatingIsSafe == Spec => []SpeculationIsSafe
BY Inductive, Consequences, PTL

-----------------------------------------------------------------------------
(***************************************************************************)
(* Operators on words of any width, and the operands that decide them.     *)
(***************************************************************************)

\* A number is made of its bits.
LEMMA WordOfBits ==
    ASSUME NEW w \in Nat, NEW x \in Word(w), NEW bits,
           \A i \in 0 .. w - 1 : bits[i] = WordBit(x, i)
    PROVE  FromBits(w, bits) = x
<1>1. PICK f : IsSum(f, w, bits) /\ FromBits(w, bits) = f[w]
  BY FromBitsIsSum
<1> DEFINE S == {n \in 0 .. w : f[n] = x % 2^n}
<1>2. x \in Nat /\ x % 2^w = x
  BY SmallRemainder DEF Word
<1>3. 0 \in S
  <2>1. x % 2^0 = 0
    BY <1>2, PowerStep
  <2> QED
    BY <1>1, <2>1 DEF IsSum
<1>4. ASSUME NEW n \in 0 .. w - 1, n \in S
      PROVE  n + 1 \in S
  <2> DEFINE p == 2^n
  <2>1. p \in Nat /\ p > 0 /\ 2^(n + 1) = 2 * p
    BY PowerStep
  <2>2. f[n + 1] = f[n] + bits[n] * p /\ f[n] = x % p
    BY <1>1, <1>4 DEF IsSum
  <2>3. bits[n] = (x \div p) % 2
    BY DEF WordBit
  <2> HIDE DEF p
  <2>4. PICK c \in Int, b \in {0, 1}, r \in 0 .. p - 1 :
           /\ (x \div p) % 2 = b /\ x % p = r /\ x % (2 * p) = b * p + r
    BY <1>2, <2>1, Halves
  <2>5. b * p \in Int /\ r \in Int
    BY <2>1
  <2>6. f[n + 1] = x % (2 * p)
    BY <2>2, <2>3, <2>4, <2>5
  <2> QED
    BY <2>1, <2>6
<1> HIDE DEF S
<1>5. 0 .. w \subseteq S
  BY <1>3, <1>4, ReachesAll
<1>6. f[w] = x % 2^w
  BY <1>5 DEF S
<1> QED
  BY <1>1, <1>2, <1>6

LEMMA BitsOfAllBits ==
    ASSUME NEW w \in Nat, NEW i \in 0 .. w - 1
    PROVE  WordBit(AllBits(w), i) = 1
<1> DEFINE p == 2^i
           q == 2^(w - i - 1)
<1>1. p \in Nat /\ p > 0 /\ q \in Nat /\ q > 0 /\ 2^w = p * (2 * q)
  <2>1. w - i - 1 \in Nat /\ (w - i - 1) + 1 = w - i /\ w - i \in Nat /\ i + (w - i) = w /\ i \in Nat
    OBVIOUS
  <2>2. 2^(w - i) = 2 * q
    BY <2>1, PowerStep
  <2>3. 2^w = p * 2^(w - i)
    BY <2>1, PowersAdd
  <2> QED
    BY <2>1, <2>2, <2>3, PowerStep
<1>2. AllBits(w) = p * (2 * q) - 1
  BY <1>1 DEF AllBits
<1> HIDE DEF p, q
<1>3. p * (2 * q) - 1 = (2 * q - 1) * p + (p - 1)
  BY <1>1
<1>4. (p * (2 * q) - 1) \div p = 2 * q - 1
  <2> DEFINE x == p * (2 * q) - 1
             d == 2 * q - 1
             o == p - 1
  <2>1. x \in Int /\ d \in Int /\ o \in 0 .. p - 1 /\ x = d * p + o
    BY <1>1, <1>3
  <2> HIDE DEF x, d, o
  <2>2. x \div p = d
    BY <1>1, <2>1, UniqueQuotient
  <2> QED
    BY <2>2 DEF x, d
<1>5. (2 * q - 1) % 2 = 1
  BY <1>1
<1> QED
  BY <1>2, <1>4, <1>5 DEF WordBit, p

\* Bitwise operations on a word and itself, no bits and all bits.
LEMMA BitwiseIdentities ==
    ASSUME NEW w \in Nat, NEW x \in Word(w)
    PROVE  /\ BitAnd(w, x, x) = x /\ BitOr(w, x, x) = x /\ BitXor(w, x, x) = 0
           /\ BitAnd(w, x, 0) = 0 /\ BitAnd(w, 0, x) = 0
           /\ BitOr(w, x, 0) = x /\ BitOr(w, 0, x) = x
           /\ BitXor(w, x, 0) = x /\ BitXor(w, 0, x) = x
           /\ BitAnd(w, x, AllBits(w)) = x /\ BitAnd(w, AllBits(w), x) = x
           /\ BitOr(w, x, AllBits(w)) = AllBits(w) /\ BitOr(w, AllBits(w), x) = AllBits(w)
<1> DEFINE Of(y) == [i \in 0 .. w - 1 |-> WordBit(y, i)]
           a == AllBits(w)
<1>1. \A i \in 0 .. w - 1 : WordBit(x, i) = 0 \/ WordBit(x, i) = 1
  BY BitIsBit DEF Word
<1>2. \A i \in 0 .. w - 1 : WordBit(0, i) = 0
  BY BitsOfSmall, PowerStep
<1>3. \A i \in 0 .. w - 1 : WordBit(a, i) = 1
  BY BitsOfAllBits
<1>4. 0 \in Word(w) /\ a \in Word(w)
  BY PowerStep DEF Word, AllBits
<1>5. \A y \in Word(w) : \A bits : (\A i \in 0 .. w - 1 : bits[i] = WordBit(y, i)) => FromBits(w, bits) = y
  BY WordOfBits
<1> HIDE DEF a
<1> SUFFICES /\ BitAnd(w, x, x) = x /\ BitOr(w, x, x) = x /\ BitXor(w, x, x) = 0
             /\ BitAnd(w, x, 0) = 0 /\ BitAnd(w, 0, x) = 0
             /\ BitOr(w, x, 0) = x /\ BitOr(w, 0, x) = x
             /\ BitXor(w, x, 0) = x /\ BitXor(w, 0, x) = x
             /\ BitAnd(w, x, a) = x /\ BitAnd(w, a, x) = x
             /\ BitOr(w, x, a) = a /\ BitOr(w, a, x) = a
  BY DEF a
<1>6. \A y, z, u :
         u \in Word(w) /\ (\A i \in 0 .. w - 1 : WordBit(y, i) * WordBit(z, i) = WordBit(u, i))
            => BitAnd(w, y, z) = u
  BY <1>5 DEF BitAnd
<1>7. \A y, z, u :
         /\ u \in Word(w)
         /\ \A i \in 0 .. w - 1 :
               (IF WordBit(y, i) + WordBit(z, i) = 0 THEN 0 ELSE 1) = WordBit(u, i)
         => BitOr(w, y, z) = u
  BY <1>5 DEF BitOr
<1>8. \A y, z, u :
         u \in Word(w) /\ (\A i \in 0 .. w - 1 : (WordBit(y, i) + WordBit(z, i)) % 2 = WordBit(u, i))
            => BitXor(w, y, z) = u
  BY <1>5 DEF BitXor
<1>9. BitAnd(w, x, x) = x /\ BitAnd(w, x, 0) = 0 /\ BitAnd(w, 0, x) = 0
  BY <1>1, <1>2, <1>4, <1>6
<1>10. BitAnd(w, x, a) = x /\ BitAnd(w, a, x) = x
  BY <1>1, <1>3, <1>4, <1>6
<1>11. BitOr(w, x, x) = x /\ BitOr(w, x, 0) = x /\ BitOr(w, 0, x) = x
  BY <1>1, <1>2, <1>4, <1>7
<1>12. BitOr(w, x, a) = a /\ BitOr(w, a, x) = a
  BY <1>1, <1>3, <1>4, <1>7
<1>13. BitXor(w, x, x) = 0 /\ BitXor(w, x, 0) = x /\ BitXor(w, 0, x) = x
  BY <1>1, <1>2, <1>4, <1>8
<1> QED
  BY <1>9, <1>10, <1>11, <1>12, <1>13

LEMMA BitwiseRange ==
    ASSUME NEW w \in Nat, NEW x \in Word(w), NEW y \in Word(w)
    PROVE  /\ BitAnd(w, x, y) \in Word(w) /\ BitOr(w, x, y) \in Word(w)
           /\ BitXor(w, x, y) \in Word(w)
<1>1. \A i \in 0 .. w - 1 : /\ WordBit(x, i) = 0 \/ WordBit(x, i) = 1
                            /\ WordBit(y, i) = 0 \/ WordBit(y, i) = 1
  BY BitIsBit DEF Word
<1>2. [i \in 0 .. w - 1 |-> WordBit(x, i) * WordBit(y, i)] \in BitsOf(w)
  BY <1>1 DEF BitsOf
<1>3. [i \in 0 .. w - 1 |-> IF WordBit(x, i) + WordBit(y, i) = 0 THEN 0 ELSE 1] \in BitsOf(w)
  BY <1>1 DEF BitsOf
<1>4. [i \in 0 .. w - 1 |-> (WordBit(x, i) + WordBit(y, i)) % 2] \in BitsOf(w)
  BY <1>1 DEF BitsOf
<1> QED
  BY <1>2, <1>3, <1>4, FromBitsRange DEF BitAnd, BitOr, BitXor

\* The width of a right operand.
CountWidth(operator, w) == IF operator \in Shifts \cup Rotates THEN I32 ELSE w

LEMMA RotatedRange ==
    ASSUME NEW w \in Nat, w > 0, NEW x \in Word(w), NEW n \in 0 .. w - 1
    PROVE  ShiftLeft(w, x, n) \in Word(w) /\ RotateLeft(w, x, n) \in Word(w)
<1> DEFINE l == (x % 2^(w - n)) * 2^n
           h == x \div 2^(w - n)
           p == 2^n
           q == 2^w
<1>1. n \in 0 .. w /\ w - n \in 0 .. w /\ w - (w - n) = n /\ n < w
  OBVIOUS
<1>2. ShiftLeft(w, x, n) = l
  BY <1>1 DEF ShiftLeft
<1>3. RotateLeft(w, x, n) = l + h
  BY <1>2 DEF RotateLeft
<1>4. l \in Nat /\ l + p <= q
  BY <1>1, LeftPart
<1>5. h \in Nat /\ h < p
  BY <1>1, SplitWord
<1>6. p \in Nat /\ p > 0 /\ q \in Nat
  BY PowerStep
<1> HIDE DEF l, h, p, q
<1>7. l \in 0 .. q - 1 /\ l + h \in 0 .. q - 1
  BY <1>4, <1>5, <1>6
<1> QED
  BY <1>2, <1>3, <1>7 DEF Word, q

LEMMA ShiftedRange ==
    ASSUME NEW w \in Nat, w > 0, NEW x \in Word(w), NEW n \in Nat
    PROVE  ShiftLeft(w, x, n) \in Word(w) /\ x \div 2^n \in Word(w)
<1>1. ShiftLeft(w, x, n) \in Word(w)
  <2>1. CASE n >= w
    <3>1. ShiftLeft(w, x, n) = 0
      BY <2>1 DEF ShiftLeft
    <3> QED
      BY <3>1, PowerStep DEF Word
  <2>2. CASE n < w
    <3>1. n \in 0 .. w - 1
      BY <2>2
    <3> QED
      BY <3>1, RotatedRange
  <2> QED
    BY <2>1, <2>2
<1>2. x \in Nat /\ x < 2^w /\ 2^w \in Nat /\ 2^n \in Nat /\ 2^n > 0
  BY PowerStep DEF Word
<1> DEFINE p == 2^n
           q == 2^w
           d == x \div p
<1>3. d \in Nat /\ d <= x
  BY <1>2, DivisionFacts
<1>4. x < q /\ q \in Nat /\ x \in Nat
  BY <1>2
<1> HIDE DEF d, q, p
<1>5. d \in 0 .. q - 1
  BY <1>3, <1>4
<1> QED
  BY <1>1, <1>5 DEF d, q, p, Word

LEMMA CountFacts ==
    ASSUME NEW w \in 1 .. I64, NEW y \in Nat
    PROVE  /\ w \in Nat /\ w > 0 /\ w \in Int
           /\ EffectiveShiftAmount(w, y) \in Nat
           /\ EffectiveRotateAmount(w, y) \in 0 .. w - 1
           /\ (w - EffectiveRotateAmount(w, y)) % w \in 0 .. w - 1
<1>1. w \in Nat /\ w > 0
  BY WidthFacts
<1>2. TypeWidth(w) \in Nat /\ TypeWidth(w) > 0
  BY WidthFacts DEF TypeWidth
<1> DEFINE t == TypeWidth(w)
<1> HIDE DEF t
<1>3. y % t \in Nat
  BY <1>2, DivisionFacts DEF t
<1>4. y % w \in 0 .. w - 1
  BY <1>1, DivisionFacts
<1> DEFINE r == y % w
<1> HIDE DEF r
<1>5. w - r \in Nat
  BY <1>1, <1>4 DEF r
<1>6. (w - r) % w \in 0 .. w - 1
  BY <1>1, <1>5, DivisionFacts
<1> QED
  BY <1>1, <1>3, <1>4, <1>6 DEF t, r, EffectiveShiftAmount, EffectiveRotateAmount

\* What is computed is a word, unless a division has no result.
LEMMA EvaluatedRange ==
    ASSUME NEW w \in 1 .. I64, NEW operator \in BinaryOperators, NEW x \in Word(w),
           NEW y \in Word(CountWidth(operator, w))
    PROVE  /\ EvaluateBinary(operator, w, x, y) \in {Undefined} \cup Word(w)
           /\ EvaluateBinary(operator, w, x, y) = Undefined => operator \in UnsafeOperators
<1> DEFINE r == EvaluateBinary(operator, w, x, y)
           signedX == SignedInteger(w, x)
           signedY == SignedInteger(w, y)
           count == EffectiveShiftAmount(w, y)
           turn == EffectiveRotateAmount(w, y)
<1> SUFFICES /\ r \in {Undefined} \cup Word(w)
             /\ r = Undefined => operator \in UnsafeOperators
  OBVIOUS
<1>1. x \in Nat /\ y \in Nat
  BY DEF Word
<1>2. w \in Nat /\ w > 0 /\ count \in Nat /\ turn \in 0 .. w - 1 /\ (w - turn) % w \in 0 .. w - 1
  BY <1>1, CountFacts
<1>3. \A z \in Int : NormalizeInteger(w, z) \in Word(w)
  BY <1>2, WrappedIsWord DEF NormalizeInteger
<1>4. Undefined \notin Word(w)
  BY DEF Undefined, Word
<1>5. signedX \in Int
  BY <1>2, SignedZero
<1>6. CASE operator \in {"add", "sub", "mul"}
  <2>1. x + y \in Int /\ x - y \in Int /\ x * y \in Int
    BY <1>1
  <2>2. r \in {NormalizeInteger(w, x + y), NormalizeInteger(w, x - y), NormalizeInteger(w, x * y)}
    BY <1>6 DEF EvaluateBinary
  <2> HIDE DEF r
  <2> QED
    BY <1>3, <1>4, <2>1, <2>2
<1>7. CASE operator \in UnsafeOperators
  <2>1. y \in Word(w)
    BY <1>7 DEF UnsafeOperators, CountWidth, Shifts, Rotates
  <2>2. signedY \in Int /\ (signedY = 0 <=> y = 0)
    BY <1>2, <2>1, SignedZero
  <2>3. CASE y = 0
    <3>1. r = Undefined
      BY <1>7, <2>2, <2>3 DEF EvaluateBinary, EvaluateSignedDivision, UnsafeOperators
    <3> QED
      BY <1>7, <3>1
  <2>4. CASE y # 0
    <3>1. Quotient(signedX, signedY) \in Int /\ Remainder(signedX, signedY) \in Int
      <4> HIDE DEF signedX, signedY
      <4> QED
        BY <1>5, <2>2, <2>4, SignedDivisionType
    <3>2. x \div y \in Word(w) /\ x % y \in Word(w)
      <4> DEFINE d == x \div y
                 m == x % y
                 p == 2^w
      <4>1. d \in Nat /\ d <= x /\ m \in Nat /\ m <= x
        BY <1>1, <2>4, DivisionFacts
      <4>2. x \in Nat /\ x < p /\ p \in Nat
        BY <1>2, PowerStep DEF Word
      <4> HIDE DEF d, m, p
      <4>3. d \in 0 .. p - 1 /\ m \in 0 .. p - 1
        BY <4>1, <4>2
      <4> QED
        BY <4>3 DEF d, m, p, Word
    <3>3. /\ NormalizeInteger(w, Quotient(signedX, signedY)) \in Word(w)
          /\ NormalizeInteger(w, Remainder(signedX, signedY)) \in Word(w)
      <4> HIDE DEF signedX, signedY
      <4> QED
        BY <1>3, <3>1
    <3>4. r \in {Undefined, NormalizeInteger(w, Quotient(signedX, signedY)),
                 NormalizeInteger(w, Remainder(signedX, signedY)), x \div y, x % y}
      BY <1>7 DEF EvaluateBinary, EvaluateSignedDivision, UnsafeOperators
    <3> HIDE DEF r
    <3> QED
      BY <1>7, <3>2, <3>3, <3>4
  <2> QED
    BY <2>3, <2>4
<1>8. CASE operator \in {"and", "or", "xor"}
  <2>1. y \in Word(w)
    BY <1>8 DEF CountWidth, Shifts, Rotates
  <2>2. r \in {BitAnd(w, x, y), BitOr(w, x, y), BitXor(w, x, y)}
    BY <1>8 DEF EvaluateBinary
  <2> HIDE DEF r
  <2> QED
    BY <1>2, <1>4, <2>1, <2>2, BitwiseRange
<1>9. CASE operator \in Shifts
  <2> DEFINE p == 2^count
             s == signedX \div p
  <2>1. s \in Int
    <3>1. p \in Nat /\ p > 0
      BY <1>2, PowerStep
    <3> HIDE DEF p, signedX
    <3> QED
      BY <1>5, <3>1
  <2>2. r \in {ShiftLeft(w, x, count), NormalizeInteger(w, s), x \div 2^count}
    BY <1>9 DEF EvaluateBinary, Shifts
  <2> HIDE DEF r, s, p, count
  <2> QED
    BY <1>2, <1>3, <1>4, <2>1, <2>2, ShiftedRange
<1>10. CASE operator \in Rotates
  <2>1. r \in {RotateLeft(w, x, turn), RotateLeft(w, x, (w - turn) % w)}
    BY <1>10 DEF EvaluateBinary, Rotates
  <2> HIDE DEF r, turn
  <2> QED
    BY <1>2, <1>4, <2>1, RotatedRange
<1> QED
  BY <1>6, <1>7, <1>8, <1>9, <1>10
     DEF BinaryOperators, Arithmetic, Shifts, Rotates, UnsafeOperators

LEMMA NormalizedSigned ==
    ASSUME NEW w \in Nat, w > 0, NEW x \in Word(w)
    PROVE  /\ NormalizeInteger(w, SignedInteger(w, x)) = x
           /\ SignedInteger(w, x) \in Int
<1> DEFINE p == 2^w
           s == SignedInteger(w, x)
<1>1. p \in Nat /\ p > 0 /\ x \in 0 .. p - 1 /\ s \in Int
  BY TopBit, SignedZero DEF Word
<1>2. s = x \/ s = x - p
  BY SignedOfWord
<1> HIDE DEF s, p
<1>3. s = 0 * p + x \/ s = (-1) * p + x
  BY <1>1, <1>2
<1>4. s % p = x
  BY <1>1, <1>3, UniqueRemainder
<1> QED
  BY <1>1, <1>4 DEF NormalizeInteger, s, p

LEMMA ShiftedByNothing ==
    ASSUME NEW w \in Nat, w > 0, NEW x \in Word(w)
    PROVE  /\ ShiftLeft(w, x, 0) = x /\ RotateLeft(w, x, 0) = x
           /\ x \div 2^0 = x /\ SignedInteger(w, x) \div 2^0 = SignedInteger(w, x)
<1> DEFINE p == 2^w
<1>1. p \in Nat /\ p > 0 /\ x \in Nat /\ x < p /\ x % p = x /\ 2^0 = 1 /\ w - 0 = w /\ ~(0 >= w)
  BY SmallRemainder, PowerStep DEF Word
<1>2. ShiftLeft(w, x, 0) = x
  <2>1. ShiftLeft(w, x, 0) = (x % 2^(w - 0)) * 2^0
    BY <1>1 DEF ShiftLeft
  <2>2. ShiftLeft(w, x, 0) = x * 1
    BY <1>1, <2>1
  <2> QED
    BY <1>1, <2>2
<1>3. x \div p = 0
  <2>1. x = 0 * p + x /\ x \in 0 .. p - 1
    BY <1>1
  <2> HIDE DEF p
  <2> QED
    BY <1>1, <2>1, UniqueQuotient
<1>4. RotateLeft(w, x, 0) = x + 0
  <2>1. RotateLeft(w, x, 0) = ShiftLeft(w, x, 0) + (x \div 2^(w - 0))
    BY DEF RotateLeft
  <2> QED
    BY <1>1, <1>2, <1>3, <2>1
<1>5. \A z \in Int : z \div 1 = z
  OBVIOUS
<1>6. SignedInteger(w, x) \in Int
  BY SignedZero
<1> QED
  BY <1>1, <1>2, <1>4, <1>5, <1>6

\* Division by a word of one: of one bit, that is minus one.
LEMMA DividedByOne ==
    ASSUME NEW w \in 1 .. I64, NEW x \in Word(w)
    PROVE  EvaluateSignedDivision(w, SignedInteger(w, x), SignedInteger(w, 1)) = x
<1> DEFINE s == SignedInteger(w, x)
<1>1. w \in Nat /\ w > 0
  BY WidthFacts
<1>2. s \in Int /\ NormalizeInteger(w, s) = x
  BY <1>1, NormalizedSigned
<1>3. CASE w = 1
  <2>1. 2^w = 2 /\ 2^(w - 1) = 1
    BY <1>3, PowersOfTwo
  <2>2. 1 \in Word(w) /\ (x = 0 \/ x = 1)
    BY <2>1 DEF Word
  <2>3. SignedInteger(w, 1) = -1 /\ (x = 0 => s = 0) /\ (x = 1 => s = -1)
    <3>1. \A y \in Word(w) : SignedInteger(w, y) = IF y < 1 THEN y ELSE y - 2
      BY <1>1, <2>1, SignedOfWord
    <3> QED
      BY <2>2, <3>1
  <2>4. w < I32
    BY <1>3, WidthFacts
  <2>5. EvaluateSignedDivision(w, s, -1) = NormalizeInteger(w, Quotient(s, -1))
    BY <1>1, <2>4, WidthFacts DEF EvaluateSignedDivision
  <2>6. Quotient(0, -1) = 0 /\ Quotient(-1, -1) = 1
    BY DEF Quotient, Magnitude
  <2>7. NormalizeInteger(w, 0) = 0 /\ NormalizeInteger(w, 1) = 1
    BY <2>1 DEF NormalizeInteger
  <2> HIDE DEF s
  <2>8. CASE x = 0
    BY <2>3, <2>5, <2>6, <2>7, <2>8 DEF s
  <2>9. CASE x = 1
    BY <2>3, <2>5, <2>6, <2>7, <2>9 DEF s
  <2> QED
    BY <2>2, <2>8, <2>9
<1>4. CASE w > 1
  <2>1. SignedInteger(w, 1) = 1
    <3>1. 1 < w /\ 1 < 2^1
      BY <1>4, PowersOfTwo
    <3> QED
      BY <1>1, <3>1, SignedOfSmall
  <2>2. EvaluateSignedDivision(w, s, 1) = NormalizeInteger(w, Quotient(s, 1))
    BY DEF EvaluateSignedDivision
  <2> HIDE DEF s
  <2>3. Quotient(s, 1) = s
    <3>1. Magnitude(1) = 1 /\ Magnitude(s) \in Nat /\ Magnitude(s) = IF s < 0 THEN -s ELSE s
      BY <1>2 DEF Magnitude
    <3>2. Magnitude(s) \div 1 = Magnitude(s)
      BY <3>1
    <3>3. Quotient(s, 1) = IF (s < 0) = (1 < 0) THEN Magnitude(s) ELSE -Magnitude(s)
      BY <3>1, <3>2 DEF Quotient
    <3> QED
      BY <1>2, <3>1, <3>3
  <2> QED
    BY <1>2, <2>1, <2>2, <2>3 DEF s
<1> QED
  BY <1>1, <1>3, <1>4

\* An operand that decides an operation, as the simplifier may know it.
MayKnow(constant, x) == constant \in {Undefined, x}

\* The left operand is taken only where it is the result.
LEMMA OperandAIsResult ==
    ASSUME NEW w \in 1 .. I64, NEW operator \in BinaryOperators, NEW x \in Word(w),
           NEW y \in Word(CountWidth(operator, w)), NEW left, NEW right, NEW same \in BOOLEAN,
           MayKnow(left, x), MayKnow(right, y), same => x = y,
           IsOperandA(operator, w, left, right, same)
    PROVE  EvaluateBinary(operator, w, x, y) = x
<1>1. x \in Nat /\ y \in Nat /\ w \in Nat /\ w > 0 /\ x % 2^w = x
  BY WidthFacts, SmallRemainder DEF Word
<1>2. AllBits(w) \in Nat /\ Undefined \notin Nat /\ 0 \in Nat /\ 1 \in Nat
  BY PowerStep, <1>1 DEF AllBits, Undefined
<1>3. CASE right = 0 /\ operator \in {"add", "sub", "xor", "or"}
  <2>1. y = 0
    BY <1>2, <1>3 DEF MayKnow
  <2>2. x + 0 = x /\ x - 0 = x
    BY <1>1
  <2>3. CASE operator \in {"add", "sub"}
    BY <1>1, <2>1, <2>2, <2>3 DEF EvaluateBinary, NormalizeInteger
  <2>4. CASE operator \in {"xor", "or"}
    BY <1>1, <2>1, <2>4, BitwiseIdentities DEF EvaluateBinary
  <2> QED
    BY <1>3, <2>3, <2>4
<1>4. CASE right = 1 /\ operator \in {"mul", "div_s", "div_u"}
  <2>1. y = 1
    BY <1>2, <1>4 DEF MayKnow
  <2>2. x * 1 = x /\ x \div 1 = x
    BY <1>1
  <2>3. CASE operator = "mul"
    BY <1>1, <2>1, <2>2, <2>3 DEF EvaluateBinary, NormalizeInteger
  <2>4. CASE operator = "div_u"
    BY <2>1, <2>2, <2>4 DEF EvaluateBinary
  <2>5. CASE operator = "div_s"
    BY <2>1, <2>5, DividedByOne DEF EvaluateBinary
  <2> QED
    BY <1>4, <2>3, <2>4, <2>5
<1>5. CASE right = AllBits(w) /\ operator = "and"
  <2>1. y = AllBits(w)
    BY <1>2, <1>5 DEF MayKnow
  <2> QED
    BY <1>1, <1>5, <2>1, BitwiseIdentities DEF EvaluateBinary
<1>6. CASE left = AllBits(w) /\ operator = "or"
  <2>1. x = AllBits(w) /\ y \in Word(w)
    BY <1>2, <1>6 DEF MayKnow, CountWidth, Shifts, Rotates
  <2> QED
    BY <1>1, <1>6, <2>1, BitwiseIdentities DEF EvaluateBinary
<1>7. CASE same /\ operator \in {"or", "and"}
  BY <1>1, <1>7, BitwiseIdentities DEF EvaluateBinary
<1>8. CASE right # Undefined /\ operator \in Shifts /\ EffectiveShiftAmount(w, right) = 0
  <2>1. EffectiveShiftAmount(w, y) = 0
    BY <1>8 DEF MayKnow
  <2>2. EvaluateBinary(operator, w, x, y) \in
           {ShiftLeft(w, x, 0), NormalizeInteger(w, SignedInteger(w, x) \div 2^0), x \div 2^0}
    BY <1>8, <2>1 DEF EvaluateBinary, Shifts
  <2>3. /\ ShiftLeft(w, x, 0) = x /\ x \div 2^0 = x
        /\ NormalizeInteger(w, SignedInteger(w, x) \div 2^0) = x
    BY <1>1, ShiftedByNothing, NormalizedSigned
  <2> QED
    BY <2>2, <2>3
<1>9. CASE right # Undefined /\ operator \in Rotates /\ EffectiveRotateAmount(w, right) = 0
  <2>1. EffectiveRotateAmount(w, y) = 0
    BY <1>9 DEF MayKnow
  <2>2. (w - 0) % w = 0
    BY <1>1
  <2>3. EvaluateBinary(operator, w, x, y) = RotateLeft(w, x, 0)
    BY <1>9, <2>1, <2>2 DEF EvaluateBinary, Rotates
  <2> QED
    BY <1>1, <2>3, ShiftedByNothing
<1> QED
  BY <1>3, <1>4, <1>5, <1>6, <1>7, <1>8, <1>9 DEF IsOperandA

LEMMA OperandBIsResult ==
    ASSUME NEW w \in 1 .. I64, NEW operator \in BinaryOperators, NEW x \in Word(w),
           NEW y \in Word(CountWidth(operator, w)), NEW left, NEW right,
           MayKnow(left, x), MayKnow(right, y), IsOperandB(operator, w, left, right)
    PROVE  EvaluateBinary(operator, w, x, y) = y /\ y \in Word(w)
<1>1. w \in Nat /\ w > 0
  BY WidthFacts
<1>2. operator \in {"add", "xor", "or", "mul", "and"}
  BY DEF IsOperandB
<1>3. y \in Word(w)
  BY <1>2 DEF CountWidth, Shifts, Rotates
<1>4. x \in Nat /\ y \in Nat /\ y % 2^w = y
  BY <1>1, <1>3, SmallRemainder DEF Word
<1>5. AllBits(w) \in Nat /\ Undefined \notin Nat /\ 0 \in Nat /\ 1 \in Nat
  BY PowerStep, <1>1 DEF AllBits, Undefined
<1>6. CASE left = 0 /\ operator = "add"
  <2>1. x = 0 /\ 0 + y = y
    BY <1>4, <1>5, <1>6 DEF MayKnow
  <2> QED
    BY <1>3, <1>4, <1>6, <2>1 DEF EvaluateBinary, NormalizeInteger
<1>7. CASE left = 0 /\ operator \in {"xor", "or"}
  <2>1. x = 0
    BY <1>5, <1>7 DEF MayKnow
  <2> QED
    BY <1>1, <1>3, <1>7, <2>1, BitwiseIdentities DEF EvaluateBinary
<1>8. CASE left = 1 /\ operator = "mul"
  <2>1. x = 1 /\ 1 * y = y
    BY <1>4, <1>5, <1>8 DEF MayKnow
  <2> QED
    BY <1>3, <1>4, <1>8, <2>1 DEF EvaluateBinary, NormalizeInteger
<1>9. CASE left = AllBits(w) /\ operator = "and"
  <2>1. x = AllBits(w)
    BY <1>5, <1>9 DEF MayKnow
  <2> QED
    BY <1>1, <1>3, <1>9, <2>1, BitwiseIdentities DEF EvaluateBinary
<1>10. CASE right = AllBits(w) /\ operator = "or"
  <2>1. y = AllBits(w)
    BY <1>5, <1>10 DEF MayKnow
  <2> QED
    BY <1>1, <1>3, <1>10, <2>1, BitwiseIdentities DEF EvaluateBinary
<1> QED
  BY <1>6, <1>7, <1>8, <1>9, <1>10 DEF IsOperandB

LEMMA NothingRemains ==
    ASSUME NEW s \in Int, NEW d \in {1, -1}
    PROVE  Remainder(s, d) = 0
<1>1. Magnitude(d) = 1
  BY DEF Magnitude
<1>2. Magnitude(s) \in Nat /\ Magnitude(s) = IF s < 0 THEN -s ELSE s
  BY DEF Magnitude
<1>3. Magnitude(s) \div Magnitude(d) = Magnitude(s)
  BY <1>1, <1>2
<1>4. Quotient(s, d) = IF (s < 0) = (d < 0) THEN Magnitude(s) ELSE -Magnitude(s)
  BY <1>3 DEF Quotient
<1>5. CASE d = 1
  <2>1. Quotient(s, d) = s
    BY <1>2, <1>4, <1>5
  <2> QED
    BY <1>5, <2>1 DEF Remainder
<1>6. CASE d = -1
  <2>1. Quotient(s, d) = -s
    BY <1>2, <1>4, <1>6
  <2> QED
    BY <1>6, <2>1 DEF Remainder
<1> QED
  BY <1>5, <1>6

LEMMA SignedUnits ==
    ASSUME NEW w \in Nat, w > 0
    PROVE  SignedInteger(w, 1) \in {1, -1} /\ SignedInteger(w, AllBits(w)) = -1
<1> DEFINE h == 2^(w - 1)
           p == 2^w
<1>1. h \in Nat /\ h > 0 /\ p = 2 * h /\ p \in Nat
  BY TopBit
<1>2. \A x \in Word(w) : SignedInteger(w, x) = IF x < h THEN x ELSE x - p
  BY SignedOfWord
<1>3. Word(w) = 0 .. p - 1 /\ AllBits(w) = p - 1
  BY DEF Word, AllBits
<1>4. CASE w = 1
  <2>1. h = 1 /\ p = 2
    BY <1>4, PowersOfTwo
  <2> HIDE DEF h, p
  <2> QED
    BY <1>2, <1>3, <2>1
<1>5. CASE w > 1
  <2>1. SignedInteger(w, 1) = 1
    <3>1. 1 < w /\ 1 < 2^1
      BY <1>5, PowersOfTwo
    <3> QED
      BY <3>1, SignedOfSmall
  <2> HIDE DEF h, p
  <2>2. p - 1 \in 0 .. p - 1 /\ ~(p - 1 < h)
    BY <1>1
  <2>3. SignedInteger(w, p - 1) = (p - 1) - p
    BY <1>2, <1>3, <2>2
  <2> QED
    BY <1>1, <1>3, <2>1, <2>3
<1> QED
  BY <1>4, <1>5

LEMMA ZeroIsResult ==
    ASSUME NEW w \in 1 .. I64, NEW operator \in BinaryOperators, NEW x \in Word(w),
           NEW y \in Word(CountWidth(operator, w)), NEW left, NEW right, NEW same \in BOOLEAN,
           MayKnow(left, x), MayKnow(right, y), same => x = y,
           IsZero(operator, w, left, right, same)
    PROVE  EvaluateBinary(operator, w, x, y) = 0
<1>1. x \in Nat /\ y \in Nat /\ w \in Nat /\ w > 0 /\ w \in Int
  BY WidthFacts DEF Word
<1>2. AllBits(w) \in Nat /\ Undefined \notin Nat /\ 0 \in Nat /\ 1 \in Nat
  BY PowerStep, <1>1 DEF AllBits, Undefined
<1>3. NormalizeInteger(w, 0) = 0
  <2>1. 2^w \in Nat /\ 2^w > 0
    BY <1>1, PowerStep
  <2> DEFINE p == 2^w
  <2> HIDE DEF p
  <2>2. 0 % p = 0
    BY <2>1 DEF p
  <2> QED
    BY <2>2 DEF NormalizeInteger, p
<1>4. CASE same /\ operator \in {"sub", "xor"}
  <2>1. x = y /\ x - x = 0
    BY <1>1, <1>4
  <2>2. CASE operator = "sub"
    BY <1>3, <2>1, <2>2 DEF EvaluateBinary
  <2>3. CASE operator = "xor"
    BY <1>1, <2>1, <2>3, BitwiseIdentities DEF EvaluateBinary
  <2> QED
    BY <1>4, <2>2, <2>3
<1>5. CASE 0 \in {left, right} /\ operator \in {"mul", "and"}
  <2>1. x = 0 \/ y = 0
    BY <1>2, <1>5 DEF MayKnow
  <2>2. y \in Word(w)
    BY <1>5 DEF CountWidth, Shifts, Rotates
  <2>3. CASE operator = "mul"
    <3>1. x * y = 0
      BY <1>1, <2>1
    <3> QED
      BY <1>3, <2>3, <3>1 DEF EvaluateBinary
  <2>4. CASE operator = "and"
    BY <1>1, <2>1, <2>2, <2>4, BitwiseIdentities DEF EvaluateBinary
  <2> QED
    BY <1>5, <2>3, <2>4
<1>6. CASE right = 1 /\ operator = "rem_u"
  <2>1. y = 1 /\ x % 1 = 0
    BY <1>1, <1>2, <1>6 DEF MayKnow
  <2> QED
    BY <1>6, <2>1 DEF EvaluateBinary
<1>7. CASE right \in {1, AllBits(w)} /\ operator = "rem_s"
  <2>1. y \in {1, AllBits(w)}
    BY <1>2, <1>7 DEF MayKnow
  <2>2. SignedInteger(w, y) \in {1, -1}
    BY <1>1, <2>1, SignedUnits
  <2>3. SignedInteger(w, x) \in Int
    BY <1>1, SignedZero
  <2>4. Remainder(SignedInteger(w, x), SignedInteger(w, y)) = 0
    BY <2>2, <2>3, NothingRemains
  <2>5. SignedInteger(w, y) # 0
    BY <2>2
  <2> QED
    BY <1>3, <1>7, <2>4, <2>5 DEF EvaluateBinary
<1>8. CASE left = 0 /\ operator \in Shifts
  <2> DEFINE n == EffectiveShiftAmount(w, y)
  <2>1. x = 0
    BY <1>2, <1>8 DEF MayKnow
  <2>2. n \in Nat
    BY <1>1, CountFacts
  <2>3. SignedInteger(w, 0) = 0
    <3>1. 0 \in Word(w)
      BY <2>1
    <3> QED
      BY <1>1, <3>1, SignedZero
  <2>4. EvaluateBinary(operator, w, x, y) \in
           {ShiftLeft(w, 0, n), NormalizeInteger(w, 0 \div 2^n), 0 \div 2^n}
    BY <1>8, <2>1, <2>3 DEF EvaluateBinary, Shifts
  <2> HIDE DEF n
  <2>5. 0 \div 2^n = 0
    <3> DEFINE p == 2^n
    <3>1. p \in Nat /\ p > 0
      BY <2>2, PowerStep
    <3> HIDE DEF p
    <3>2. 0 \div p = 0
      BY <3>1
    <3> QED
      BY <3>2 DEF p
  <2>6. ShiftLeft(w, 0, n) = 0
    <3>1. CASE n >= w
      BY <3>1 DEF ShiftLeft
    <3>2. CASE ~(n >= w)
      <4> DEFINE p == 2^(w - n)
                 q == 2^n
      <4>1. p \in Nat /\ p > 0 /\ q \in Nat
        <5>1. w - n \in Nat
          BY <1>1, <2>2, <3>2
        <5> QED
          BY <2>2, <5>1, PowerStep
      <4>2. ShiftLeft(w, 0, n) = (0 % p) * q
        BY <3>2 DEF ShiftLeft
      <4> HIDE DEF p, q
      <4>3. 0 % p = 0
        BY <4>1
      <4> QED
        BY <4>1, <4>2, <4>3
    <3> QED
      BY <3>1, <3>2
  <2> QED
    BY <1>3, <2>4, <2>5, <2>6
<1> QED
  BY <1>4, <1>5, <1>6, <1>7, <1>8 DEF IsZero

LEMMA SameCompared ==
    ASSUME NEW w \in Nat, w > 0, NEW operator \in Comparisons, NEW x \in Word(w)
    PROVE  EvaluateComparison(operator, w, x, x) =
              (operator \in {"eq", "le_u", "ge_u", "le_s", "ge_s"})
<1>1. x \in Int /\ SignedInteger(w, x) \in Int
  BY SignedZero DEF Word
<1> DEFINE z == IF operator \in SignedComparisons THEN SignedInteger(w, x) ELSE x
<1>2. z \in Int
  BY <1>1
<1>3. EvaluateComparison(operator, w, x, x) =
         CASE operator = "eq" -> z = z
           [] operator = "ne" -> z # z
           [] operator \in {"lt_u", "lt_s"} -> z < z
           [] operator \in {"le_u", "le_s"} -> z <= z
           [] operator \in {"gt_u", "gt_s"} -> z > z
           [] operator \in {"ge_u", "ge_s"} -> z >= z
  BY DEF EvaluateComparison
<1> HIDE DEF z
<1>4. z <= z /\ z >= z /\ ~(z < z) /\ ~(z > z) /\ z = z
  BY <1>2
<1> QED
  BY <1>3, <1>4 DEF Comparisons, SignedComparisons

\* Equality with zero is a zero test, on either side.
LEMMA ComparedWithZero ==
    ASSUME NEW w, NEW operator \in {"eq", "ne"}, NEW x
    PROVE  LET test == IF operator = "eq" THEN "eqz" ELSE "nonzero"
           IN  /\ EvaluateComparison(operator, w, x, 0) = EvaluateZeroTest(test, x)
               /\ EvaluateComparison(operator, w, 0, x) = EvaluateZeroTest(test, x)
BY DEF EvaluateComparison, EvaluateZeroTest, SignedComparisons

LEMMA ComparisonIsBoolean ==
    ASSUME NEW w \in Nat, w > 0, NEW operator \in Comparisons, NEW x \in Word(w), NEW y \in Word(w)
    PROVE  EvaluateComparison(operator, w, x, y) \in BOOLEAN
<1> DEFINE u == IF operator \in SignedComparisons THEN SignedInteger(w, x) ELSE x
           v == IF operator \in SignedComparisons THEN SignedInteger(w, y) ELSE y
<1>1. u \in Int /\ v \in Int
  BY SignedZero DEF Word
<1>2. EvaluateComparison(operator, w, x, y) =
         CASE operator = "eq" -> u = v
           [] operator = "ne" -> u # v
           [] operator \in {"lt_u", "lt_s"} -> u < v
           [] operator \in {"le_u", "le_s"} -> u <= v
           [] operator \in {"gt_u", "gt_s"} -> u > v
           [] operator \in {"ge_u", "ge_s"} -> u >= v
  BY DEF EvaluateComparison
<1> HIDE DEF u, v
<1>3. (u < v) \in BOOLEAN /\ (u <= v) \in BOOLEAN /\ (u > v) \in BOOLEAN /\ (u >= v) \in BOOLEAN
  BY <1>1
<1> QED
  BY <1>2, <1>3 DEF Comparisons, SignedComparisons

-----------------------------------------------------------------------------
(***************************************************************************)
(* Expressions, what they are, and what may stand for them.                *)
(***************************************************************************)

\* An expression over the expressions of D, as the methods of values make them.
Shaped(D, e) ==
    /\ e = Expression(e.op, e.operator, e.value, e.width, e.inputs)
    /\ e.width \in 1 .. I64
    /\ \/ e.op = "source" /\ e.inputs = <<>> /\ e.value \in DOMAIN family.sources
       \/ e.op = "constant" /\ e.inputs = <<>> /\ e.value \in Word(e.width)
       \/ e.op = "unreachable" /\ e.inputs = <<>>
       \/ \E a, b \in D :
             /\ e.op = "binary" /\ e.operator \in BinaryOperators /\ e.inputs = <<a, b>>
             /\ a.width = e.width /\ b.width = CountWidth(e.operator, e.width)
       \/ \E a, b \in D :
             /\ e.op = "compare" /\ e.operator \in Comparisons /\ e.inputs = <<a, b>>
             /\ a.width = b.width /\ e.width = 1
       \/ \E a \in D :
             e.op = "zeroTest" /\ e.operator \in ZeroTests /\ e.inputs = <<a>> /\ e.width = 1
       \/ \E a \in D :
             /\ e.op = "bitCount" /\ e.operator \in BitCounts /\ e.inputs = <<a>>
             /\ a.width = e.width
       \/ \E a \in D : e.op \in {"extend", "truncate"} /\ e.inputs = <<a>>
       \/ \E c, a, b \in D :
             /\ e.op = "select" /\ e.inputs = <<c, a, b>>
             /\ c.width = 1 /\ a.width = e.width /\ b.width = e.width

\* The value of an expression whose operands have theirs.
ValueOver(known, e, inputWords) ==
    Evaluate(e, [i \in DOMAIN e.inputs |-> known[e.inputs[i]][inputWords]], inputWords)

\* Every expression has the value that its operator computes of its operands' values.
Meant(known) ==
    \A e \in DOMAIN known :
        /\ Shaped(DOMAIN known, e)
        /\ \A inputWords \in family.inputs :
              /\ known[e][inputWords] \in {Undefined} \cup Word(e.width)
              /\ known[e][inputWords] = ValueOver(known, e, inputWords)

\* r may stand for e.
Replaces(known, e, r) ==
    /\ Shaped(DOMAIN known, r) /\ r.width = e.width
    /\ \A inputWords \in family.inputs :
          ValueOver(known, e, inputWords) # Undefined =>
             ValueOver(known, r, inputWords) = ValueOver(known, e, inputWords)

LEMMA OneOperand ==
    ASSUME NEW known, NEW e, NEW a, NEW inputWords, e.inputs = <<a>>,
           e.op \notin {"source", "constant", "unreachable"}
    PROVE  ValueOver(known, e, inputWords) =
              IF known[a][inputWords] = Undefined THEN Undefined
              ELSE Operation(e, <<known[a][inputWords]>>)
<1> DEFINE values == [i \in DOMAIN e.inputs |-> known[e.inputs[i]][inputWords]]
<1>1. values = <<known[a][inputWords]>> /\ DOMAIN values = {1} /\ values[1] = known[a][inputWords]
  OBVIOUS
<1>2. ValueOver(known, e, inputWords) =
         IF \E i \in DOMAIN values : values[i] = Undefined THEN Undefined ELSE Operation(e, values)
  BY DEF ValueOver, Evaluate
<1> HIDE DEF values
<1> QED
  BY <1>1, <1>2

LEMMA TwoOperands ==
    ASSUME NEW known, NEW e, NEW a, NEW b, NEW inputWords, e.inputs = <<a, b>>,
           e.op \notin {"source", "constant", "unreachable"}
    PROVE  ValueOver(known, e, inputWords) =
              IF known[a][inputWords] = Undefined \/ known[b][inputWords] = Undefined
              THEN Undefined
              ELSE Operation(e, <<known[a][inputWords], known[b][inputWords]>>)
<1> DEFINE values == [i \in DOMAIN e.inputs |-> known[e.inputs[i]][inputWords]]
<1>1. /\ values = <<known[a][inputWords], known[b][inputWords]>> /\ DOMAIN values = {1, 2}
      /\ values[1] = known[a][inputWords] /\ values[2] = known[b][inputWords]
  OBVIOUS
<1>2. ValueOver(known, e, inputWords) =
         IF \E i \in DOMAIN values : values[i] = Undefined THEN Undefined ELSE Operation(e, values)
  BY DEF ValueOver, Evaluate
<1> HIDE DEF values
<1> QED
  BY <1>1, <1>2

LEMMA ThreeOperands ==
    ASSUME NEW known, NEW e, NEW a, NEW b, NEW c, NEW inputWords, e.inputs = <<a, b, c>>,
           e.op \notin {"source", "constant", "unreachable"}
    PROVE  ValueOver(known, e, inputWords) =
              IF \/ known[a][inputWords] = Undefined \/ known[b][inputWords] = Undefined
                 \/ known[c][inputWords] = Undefined
              THEN Undefined
              ELSE Operation(e, <<known[a][inputWords], known[b][inputWords], known[c][inputWords]>>)
<1> DEFINE values == [i \in DOMAIN e.inputs |-> known[e.inputs[i]][inputWords]]
<1>1. /\ values = <<known[a][inputWords], known[b][inputWords], known[c][inputWords]>>
      /\ DOMAIN values = {1, 2, 3}
      /\ values[1] = known[a][inputWords] /\ values[2] = known[b][inputWords]
      /\ values[3] = known[c][inputWords]
  OBVIOUS
<1>2. ValueOver(known, e, inputWords) =
         IF \E i \in DOMAIN values : values[i] = Undefined THEN Undefined ELSE Operation(e, values)
  BY DEF ValueOver, Evaluate
<1> HIDE DEF values
<1> QED
  BY <1>1, <1>2

LEMMA BinaryOver ==
    ASSUME NEW known, NEW e, NEW a, NEW b, NEW inputWords, e.inputs = <<a, b>>, e.op = "binary"
    PROVE  ValueOver(known, e, inputWords) =
              IF known[a][inputWords] = Undefined \/ known[b][inputWords] = Undefined
              THEN Undefined
              ELSE EvaluateBinary(e.operator, e.width, known[a][inputWords], known[b][inputWords])
<1>1. ValueOver(known, e, inputWords) =
         IF known[a][inputWords] = Undefined \/ known[b][inputWords] = Undefined
         THEN Undefined ELSE Operation(e, <<known[a][inputWords], known[b][inputWords]>>)
  BY TwoOperands
<1>2. Operation(e, <<known[a][inputWords], known[b][inputWords]>>) =
         EvaluateBinary(e.operator, e.width, known[a][inputWords], known[b][inputWords])
  BY DEF Operation
<1> QED
  BY <1>1, <1>2

LEMMA ComparisonOver ==
    ASSUME NEW known, NEW e, NEW a, NEW b, NEW inputWords, e.inputs = <<a, b>>, e.op = "compare"
    PROVE  ValueOver(known, e, inputWords) =
              IF known[a][inputWords] = Undefined \/ known[b][inputWords] = Undefined
              THEN Undefined
              ELSE Bit(EvaluateComparison(e.operator, a.width, known[a][inputWords], known[b][inputWords]))
<1>1. ValueOver(known, e, inputWords) =
         IF known[a][inputWords] = Undefined \/ known[b][inputWords] = Undefined
         THEN Undefined ELSE Operation(e, <<known[a][inputWords], known[b][inputWords]>>)
  BY TwoOperands
<1>2. Operation(e, <<known[a][inputWords], known[b][inputWords]>>) =
         Bit(EvaluateComparison(e.operator, a.width, known[a][inputWords], known[b][inputWords]))
  BY DEF Operation
<1> QED
  BY <1>1, <1>2

LEMMA ZeroTestOver ==
    ASSUME NEW known, NEW e, NEW a, NEW inputWords, e.inputs = <<a>>, e.op = "zeroTest"
    PROVE  ValueOver(known, e, inputWords) =
              IF known[a][inputWords] = Undefined
              THEN Undefined
              ELSE Bit(EvaluateZeroTest(e.operator, known[a][inputWords]))
<1>1. ValueOver(known, e, inputWords) =
         IF known[a][inputWords] = Undefined
         THEN Undefined ELSE Operation(e, <<known[a][inputWords]>>)
  BY OneOperand
<1>2. Operation(e, <<known[a][inputWords]>>) =
         Bit(EvaluateZeroTest(e.operator, known[a][inputWords]))
  BY DEF Operation
<1> QED
  BY <1>1, <1>2

LEMMA BitCountOver ==
    ASSUME NEW known, NEW e, NEW a, NEW inputWords, e.inputs = <<a>>, e.op = "bitCount"
    PROVE  ValueOver(known, e, inputWords) =
              IF known[a][inputWords] = Undefined
              THEN Undefined
              ELSE EvaluateBitCount(e.operator, e.width, known[a][inputWords])
<1>1. ValueOver(known, e, inputWords) =
         IF known[a][inputWords] = Undefined
         THEN Undefined ELSE Operation(e, <<known[a][inputWords]>>)
  BY OneOperand
<1>2. Operation(e, <<known[a][inputWords]>>) =
         EvaluateBitCount(e.operator, e.width, known[a][inputWords])
  BY DEF Operation
<1> QED
  BY <1>1, <1>2

LEMMA ExtensionOver ==
    ASSUME NEW known, NEW e, NEW a, NEW inputWords, e.inputs = <<a>>, e.op = "extend"
    PROVE  ValueOver(known, e, inputWords) =
              IF known[a][inputWords] = Undefined
              THEN Undefined
              ELSE EvaluateExtension(e.width, a.width, e.operator = "signed", known[a][inputWords])
<1>1. ValueOver(known, e, inputWords) =
         IF known[a][inputWords] = Undefined
         THEN Undefined ELSE Operation(e, <<known[a][inputWords]>>)
  BY OneOperand
<1>2. Operation(e, <<known[a][inputWords]>>) =
         EvaluateExtension(e.width, a.width, e.operator = "signed", known[a][inputWords])
  BY DEF Operation
<1> QED
  BY <1>1, <1>2

LEMMA TruncationOver ==
    ASSUME NEW known, NEW e, NEW a, NEW inputWords, e.inputs = <<a>>, e.op = "truncate"
    PROVE  ValueOver(known, e, inputWords) =
              IF known[a][inputWords] = Undefined
              THEN Undefined
              ELSE EvaluateTruncation(e.width, known[a][inputWords])
<1>1. ValueOver(known, e, inputWords) =
         IF known[a][inputWords] = Undefined
         THEN Undefined ELSE Operation(e, <<known[a][inputWords]>>)
  BY OneOperand
<1>2. Operation(e, <<known[a][inputWords]>>) =
         EvaluateTruncation(e.width, known[a][inputWords])
  BY DEF Operation
<1> QED
  BY <1>1, <1>2

LEMMA SelectOver ==
    ASSUME NEW known, NEW e, NEW c, NEW a, NEW b, NEW inputWords, e.inputs = <<c, a, b>>, e.op = "select"
    PROVE  ValueOver(known, e, inputWords) =
              IF known[c][inputWords] = Undefined \/ known[a][inputWords] = Undefined \/ known[b][inputWords] = Undefined
              THEN Undefined
              ELSE IF known[c][inputWords] = 1 THEN known[a][inputWords] ELSE known[b][inputWords]
<1>1. ValueOver(known, e, inputWords) =
         IF known[c][inputWords] = Undefined \/ known[a][inputWords] = Undefined \/ known[b][inputWords] = Undefined
         THEN Undefined ELSE Operation(e, <<known[c][inputWords], known[a][inputWords], known[b][inputWords]>>)
  BY ThreeOperands
<1>2. Operation(e, <<known[c][inputWords], known[a][inputWords], known[b][inputWords]>>) =
         IF known[c][inputWords] = 1 THEN known[a][inputWords] ELSE known[b][inputWords]
  BY DEF Operation
<1> QED
  BY <1>1, <1>2

LEMMA ZeroAndOne ==
    ASSUME NEW w \in Nat, w > 0
    PROVE  0 \in Word(w) /\ 1 \in Word(w)
<1>1. 2^w \in Nat /\ 2^w >= 2
  BY TopBit
<1> QED
  BY <1>1 DEF Word

\* A value fits its width.
LEMMA ValueRange ==
    ASSUME family \in Families, NEW known, Meant(known), NEW e, Shaped(DOMAIN known, e),
           NEW inputWords \in family.inputs
    PROVE  ValueOver(known, e, inputWords) \in {Undefined} \cup Word(e.width)
<1> DEFINE Val(a) == known[a][inputWords]
           r == ValueOver(known, e, inputWords)
<1> SUFFICES r \in {Undefined} \cup Word(e.width)
  OBVIOUS
<1>1. \A a \in DOMAIN known : /\ Val(a) \in {Undefined} \cup Word(a.width)
                              /\ a.width \in 1 .. I64
  BY DEF Meant, Shaped
<1>2. e.width \in Nat /\ e.width > 0 /\ e.width <= I64 /\ e.width \in 1 .. I64
  BY WidthFacts DEF Shaped
<1>3. \A z \in Int : NormalizeInteger(e.width, z) \in Word(e.width)
  BY <1>2, WrappedIsWord DEF NormalizeInteger
<1>4. 0 \in Word(e.width) /\ 1 \in Word(e.width)
  BY <1>2, ZeroAndOne
<1>5. \A w \in 1 .. I64 : w \in Nat /\ w > 0 /\ w <= I64
  BY WidthFacts
<1>6. CASE e.op = "source" /\ e.value \in DOMAIN family.sources
  <2>1. inputWords[e.value] \in Int
    BY <1>6, FamiliesAssumption
  <2>2. r = NormalizeInteger(e.width, inputWords[e.value])
    BY <1>6 DEF ValueOver, Evaluate
  <2> HIDE DEF r
  <2> QED
    BY <1>3, <2>1, <2>2
<1>7. CASE e.op = "constant" /\ e.value \in Word(e.width)
  BY <1>7 DEF ValueOver, Evaluate
<1>8. CASE e.op = "unreachable"
  BY <1>8 DEF ValueOver, Evaluate
<1>9. ASSUME NEW a \in DOMAIN known, NEW b \in DOMAIN known,
             e.op = "binary", e.operator \in BinaryOperators, e.inputs = <<a, b>>,
             a.width = e.width, b.width = CountWidth(e.operator, e.width)
      PROVE  r \in {Undefined} \cup Word(e.width)
  <2>1. CASE Val(a) = Undefined \/ Val(b) = Undefined
    BY <1>9, <2>1, BinaryOver
  <2>2. CASE Val(a) # Undefined /\ Val(b) # Undefined
    <3>1. r = EvaluateBinary(e.operator, e.width, Val(a), Val(b))
      BY <1>9, <2>2, BinaryOver
    <3>2. Val(a) \in Word(e.width) /\ Val(b) \in Word(CountWidth(e.operator, e.width))
      BY <1>1, <1>9, <2>2
    <3> HIDE DEF r, Val
    <3> QED
      BY <1>2, <1>9, <3>1, <3>2, EvaluatedRange
  <2> QED
    BY <2>1, <2>2
<1>10. ASSUME NEW a \in DOMAIN known, NEW b \in DOMAIN known,
              e.op = "compare", e.operator \in Comparisons, e.inputs = <<a, b>>
       PROVE  r \in {Undefined} \cup Word(e.width)
  <2>1. r \in {Undefined, 0, 1}
    BY <1>10, ComparisonOver DEF Bit
  <2> QED
    BY <1>4, <2>1
<1>11. ASSUME NEW a \in DOMAIN known, e.op = "zeroTest", e.inputs = <<a>>
       PROVE  r \in {Undefined} \cup Word(e.width)
  <2>1. r \in {Undefined, 0, 1}
    BY <1>11, ZeroTestOver DEF Bit
  <2> QED
    BY <1>4, <2>1
<1>12. ASSUME NEW a \in DOMAIN known, e.op = "bitCount", e.operator \in BitCounts,
              e.inputs = <<a>>, a.width = e.width
       PROVE  r \in {Undefined} \cup Word(e.width)
  <2>1. CASE Val(a) = Undefined
    BY <1>12, <2>1, BitCountOver
  <2>2. CASE Val(a) # Undefined
    <3>1. r = EvaluateBitCount(e.operator, e.width, Val(a)) /\ Val(a) \in Word(e.width)
      BY <1>1, <1>12, <2>2, BitCountOver
    <3>2. r \in 0 .. e.width
      <4> HIDE DEF r, Val
      <4> QED
        BY <1>2, <1>12, <3>1, BitCountRange
    <3>3. e.width < 2^e.width /\ 2^e.width \in Nat
      BY <1>2, PowersExceed, PowerStep
    <3> DEFINE p == 2^e.width
    <3> HIDE DEF r, p
    <3>4. r \in 0 .. p - 1
      BY <1>2, <3>2, <3>3 DEF p
    <3> QED
      BY <3>4 DEF Word, p
  <2> QED
    BY <2>1, <2>2
<1>13. ASSUME NEW a \in DOMAIN known, e.op \in {"extend", "truncate"}, e.inputs = <<a>>
       PROVE  r \in {Undefined} \cup Word(e.width)
  <2>1. CASE Val(a) = Undefined
    BY <1>13, <2>1, ExtensionOver, TruncationOver
  <2>2. CASE Val(a) # Undefined
    <3>1. Val(a) \in Int /\ SignedInteger(a.width, Val(a)) \in Int
      <4>1. Val(a) \in Word(a.width) /\ a.width \in Nat /\ a.width > 0
        BY <1>1, <1>5, <2>2
      <4> HIDE DEF Val
      <4> QED
        BY <4>1, SignedZero DEF Word
    <3>2. r \in {NormalizeInteger(e.width, Val(a)),
                 NormalizeInteger(e.width, SignedInteger(a.width, Val(a)))}
      BY <1>13, <2>2, ExtensionOver, TruncationOver DEF EvaluateExtension, EvaluateTruncation
    <3> HIDE DEF r, Val
    <3> QED
      BY <1>3, <3>1, <3>2
  <2> QED
    BY <2>1, <2>2
<1>14. ASSUME NEW c \in DOMAIN known, NEW a \in DOMAIN known, NEW b \in DOMAIN known,
              e.op = "select", e.inputs = <<c, a, b>>, a.width = e.width, b.width = e.width
       PROVE  r \in {Undefined} \cup Word(e.width)
  <2>1. r \in {Undefined, Val(a), Val(b)}
    BY <1>14, SelectOver
  <2> HIDE DEF r, Val
  <2> QED
    BY <1>1, <1>14, <2>1
<1> HIDE DEF r, Val
<1> QED
  BY <1>6, <1>7, <1>8, <1>9, <1>10, <1>11, <1>12, <1>13, <1>14 DEF Shaped

LEMMA OperandReplaces ==
    ASSUME NEW known, Meant(known), NEW e, NEW a \in DOMAIN known, a.width = e.width,
           \A inputWords \in family.inputs :
              ValueOver(known, e, inputWords) # Undefined =>
                 known[a][inputWords] = ValueOver(known, e, inputWords)
    PROVE  Replaces(known, e, a)
BY DEF Meant, Replaces

LEMMA ConstantReplaces ==
    ASSUME NEW known, NEW e, e.width \in 1 .. I64, NEW value \in Word(e.width),
           \A inputWords \in family.inputs :
              ValueOver(known, e, inputWords) # Undefined =>
                 ValueOver(known, e, inputWords) = value
    PROVE  Replaces(known, e, ConstantValue(e.width, value))
<1> DEFINE r == ConstantValue(e.width, value)
<1>1. NormalizeInteger(e.width, value) = value
  BY WidthFacts, SmallRemainder DEF NormalizeInteger
<1>2. r = Expression("constant", "none", value, e.width, <<>>)
  BY <1>1 DEF ConstantValue
<1>3. /\ r.op = "constant" /\ r.operator = "none" /\ r.value = value /\ r.width = e.width
      /\ r.inputs = <<>>
  BY <1>2 DEF Expression
<1> HIDE DEF r
<1>4. Shaped(DOMAIN known, r)
  BY <1>2, <1>3 DEF Shaped
<1>5. \A inputWords : ValueOver(known, r, inputWords) = value
  BY <1>3 DEF ValueOver, Evaluate
<1> QED
  BY <1>3, <1>4, <1>5 DEF Replaces, r

LEMMA ItselfReplaces ==
    ASSUME NEW known, NEW e, Shaped(DOMAIN known, e)
    PROVE  Replaces(known, e, e)
BY DEF Replaces

LEMMA ReplacedAgain ==
    ASSUME NEW known, NEW e, NEW r, NEW s, Replaces(known, e, r), Replaces(known, r, s)
    PROVE  Replaces(known, e, s)
BY DEF Replaces

\* What the simplifier sees of an operand is its value.
LEMMA OperandIsKnown ==
    ASSUME NEW known, Meant(known), NEW a \in DOMAIN known
    PROVE  /\ a.width \in 1 .. I64
           /\ ConstantOf(a) # Undefined => ConstantOf(a) \in Word(a.width)
           /\ \A inputWords \in family.inputs :
                 /\ known[a][inputWords] \in {Undefined} \cup Word(a.width)
                 /\ MayKnow(ConstantOf(a), known[a][inputWords])
                 /\ ConstantOf(a) # Undefined => known[a][inputWords] = ConstantOf(a)
<1>1. /\ Shaped(DOMAIN known, a)
      /\ \A inputWords \in family.inputs :
            /\ known[a][inputWords] \in {Undefined} \cup Word(a.width)
            /\ known[a][inputWords] = ValueOver(known, a, inputWords)
  BY DEF Meant
<1>2. a.width \in 1 .. I64
  BY <1>1 DEF Shaped
<1>3. CASE a.op # "constant"
  <2>1. ConstantOf(a) = Undefined
    BY <1>3 DEF ConstantOf
  <2> QED
    BY <1>1, <1>2, <2>1 DEF MayKnow
<1>4. CASE a.op = "constant"
  <2>1. ConstantOf(a) = a.value /\ a.value \in Word(a.width)
    BY <1>1, <1>4 DEF ConstantOf, Shaped
  <2>2. \A inputWords : ValueOver(known, a, inputWords) = a.value
    BY <1>4 DEF ValueOver, Evaluate
  <2> QED
    BY <1>1, <1>2, <2>1, <2>2 DEF MayKnow
<1> QED
  BY <1>3, <1>4

LEMMA BinarySimplified ==
    ASSUME NEW known, Meant(known), NEW e, Shaped(DOMAIN known, e), e.op = "binary"
    PROVE  Replaces(known, e, SimplifyBinary(e))
<1>1. PICK a \in DOMAIN known, b \in DOMAIN known :
         /\ e.operator \in BinaryOperators /\ e.inputs = <<a, b>>
         /\ a.width = e.width /\ b.width = CountWidth(e.operator, e.width)
  BY DEF Shaped
<1> DEFINE w == e.width
           left == ConstantOf(a)
           right == ConstantOf(b)
           value == EvaluateBinary(e.operator, w, left, right)
           same == a = b
           V(inputWords) == ValueOver(known, e, inputWords)
           X(inputWords) == known[a][inputWords]
           Y(inputWords) == known[b][inputWords]
           A == IsOperandA(e.operator, w, left, right, same)
           B == IsOperandB(e.operator, w, left, right)
           Z == IsZero(e.operator, w, left, right, same)
<1>2. w \in 1 .. I64
  BY DEF Shaped
<1>3. \A inputWords \in family.inputs :
         V(inputWords) # Undefined =>
            /\ X(inputWords) \in Word(w) /\ Y(inputWords) \in Word(CountWidth(e.operator, w))
            /\ MayKnow(left, X(inputWords)) /\ MayKnow(right, Y(inputWords))
            /\ V(inputWords) = EvaluateBinary(e.operator, w, X(inputWords), Y(inputWords))
            /\ same => X(inputWords) = Y(inputWords)
  <2> SUFFICES ASSUME NEW inputWords \in family.inputs, V(inputWords) # Undefined
               PROVE  /\ X(inputWords) \in Word(w) /\ Y(inputWords) \in Word(CountWidth(e.operator, w))
                      /\ MayKnow(left, X(inputWords)) /\ MayKnow(right, Y(inputWords))
                      /\ V(inputWords) = EvaluateBinary(e.operator, w, X(inputWords), Y(inputWords))
                      /\ same => X(inputWords) = Y(inputWords)
    OBVIOUS
  <2>1. V(inputWords) = IF X(inputWords) = Undefined \/ Y(inputWords) = Undefined THEN Undefined
                        ELSE EvaluateBinary(e.operator, w, X(inputWords), Y(inputWords))
    BY <1>1, BinaryOver
  <2>2. X(inputWords) # Undefined /\ Y(inputWords) # Undefined
    BY <2>1
  <2>3. /\ X(inputWords) \in {Undefined} \cup Word(w)
        /\ Y(inputWords) \in {Undefined} \cup Word(CountWidth(e.operator, w))
        /\ MayKnow(left, X(inputWords)) /\ MayKnow(right, Y(inputWords))
    BY <1>1, OperandIsKnown
  <2> QED
    BY <2>1, <2>2, <2>3
<1>4. SimplifyBinary(e) =
         IF left # Undefined /\ right # Undefined
         THEN IF value = Undefined THEN e ELSE ConstantValue(w, value)
         ELSE CASE A -> a [] B -> b [] Z -> ConstantValue(w, 0) [] OTHER -> e
  BY <1>1 DEF SimplifyBinary
<1>5. Replaces(known, e, e)
  BY ItselfReplaces
<1>6. CASE left # Undefined /\ right # Undefined
  <2>1. CASE value = Undefined
    BY <1>4, <1>5, <1>6, <2>1
  <2>2. CASE value # Undefined
    <3>1. value \in Word(w)
      <4>1. left \in Word(w) /\ right \in Word(CountWidth(e.operator, w))
        BY <1>1, <1>6, OperandIsKnown
      <4> HIDE DEF left, right, w
      <4> QED
        BY <1>1, <1>2, <2>2, <4>1, EvaluatedRange DEF w
    <3>2. \A inputWords \in family.inputs : V(inputWords) # Undefined => V(inputWords) = value
      BY <1>3, <1>6 DEF MayKnow
    <3>3. SimplifyBinary(e) = ConstantValue(w, value)
      BY <1>4, <1>6, <2>2
    <3> HIDE DEF value
    <3> QED
      BY <1>2, <3>1, <3>2, <3>3, ConstantReplaces
  <2> QED
    BY <2>1, <2>2
<1>7. CASE ~(left # Undefined /\ right # Undefined)
  <2>1. A => Replaces(known, e, a)
    <3> SUFFICES ASSUME A
                 PROVE  Replaces(known, e, a)
      OBVIOUS
    <3>1. ASSUME NEW inputWords \in family.inputs, V(inputWords) # Undefined
          PROVE  X(inputWords) = V(inputWords)
      <4>1. /\ X(inputWords) \in Word(w) /\ Y(inputWords) \in Word(CountWidth(e.operator, w))
            /\ MayKnow(left, X(inputWords)) /\ MayKnow(right, Y(inputWords))
            /\ V(inputWords) = EvaluateBinary(e.operator, w, X(inputWords), Y(inputWords))
            /\ same => X(inputWords) = Y(inputWords)
        BY <1>3, <3>1
      <4>2. same \in BOOLEAN
        OBVIOUS
      <4> HIDE DEF V, X, Y, left, right, same, w
      <4>3. EvaluateBinary(e.operator, w, X(inputWords), Y(inputWords)) = X(inputWords)
        BY <1>1, <1>2, <4>1, <4>2, OperandAIsResult
      <4> QED
        BY <4>1, <4>3
    <3> QED
      BY <1>1, <3>1, OperandReplaces
  <2>2. B => Replaces(known, e, b)
    <3> SUFFICES ASSUME B
                 PROVE  Replaces(known, e, b)
      OBVIOUS
    <3>1. ASSUME NEW inputWords \in family.inputs, V(inputWords) # Undefined
          PROVE  Y(inputWords) = V(inputWords)
      <4>1. /\ X(inputWords) \in Word(w) /\ Y(inputWords) \in Word(CountWidth(e.operator, w))
            /\ MayKnow(left, X(inputWords)) /\ MayKnow(right, Y(inputWords))
            /\ V(inputWords) = EvaluateBinary(e.operator, w, X(inputWords), Y(inputWords))
        BY <1>3, <3>1
      <4> HIDE DEF V, X, Y, left, right, same, w
      <4>2. EvaluateBinary(e.operator, w, X(inputWords), Y(inputWords)) = Y(inputWords)
        BY <1>1, <1>2, <4>1, OperandBIsResult
      <4> QED
        BY <4>1, <4>2
    <3>2. b.width = e.width
      <4>1. e.operator \in {"add", "xor", "or", "mul", "and"}
        BY DEF IsOperandB
      <4> QED
        BY <1>1, <4>1 DEF CountWidth, Shifts, Rotates
    <3> QED
      BY <1>1, <3>1, <3>2, OperandReplaces
  <2>3. Z => Replaces(known, e, ConstantValue(w, 0))
    <3> SUFFICES ASSUME Z
                 PROVE  Replaces(known, e, ConstantValue(w, 0))
      OBVIOUS
    <3>1. ASSUME NEW inputWords \in family.inputs, V(inputWords) # Undefined
          PROVE  V(inputWords) = 0
      <4>1. /\ X(inputWords) \in Word(w) /\ Y(inputWords) \in Word(CountWidth(e.operator, w))
            /\ MayKnow(left, X(inputWords)) /\ MayKnow(right, Y(inputWords))
            /\ V(inputWords) = EvaluateBinary(e.operator, w, X(inputWords), Y(inputWords))
            /\ same => X(inputWords) = Y(inputWords)
        BY <1>3, <3>1
      <4>2. same \in BOOLEAN
        OBVIOUS
      <4> HIDE DEF V, X, Y, left, right, same, w
      <4>3. EvaluateBinary(e.operator, w, X(inputWords), Y(inputWords)) = 0
        BY <1>1, <1>2, <4>1, <4>2, ZeroIsResult
      <4> QED
        BY <4>1, <4>3
    <3>2. 0 \in Word(w)
      BY <1>2, WidthFacts, ZeroAndOne
    <3> QED
      BY <1>2, <3>1, <3>2, ConstantReplaces
  <2>4. \/ A /\ SimplifyBinary(e) = a
        \/ B /\ SimplifyBinary(e) = b
        \/ Z /\ SimplifyBinary(e) = ConstantValue(w, 0)
        \/ SimplifyBinary(e) = e
    <3> HIDE DEF A, B, Z, left, right, value, w
    <3> QED
      BY <1>4, <1>7
  <2> QED
    BY <1>5, <2>1, <2>2, <2>3, <2>4
<1> QED
  BY <1>6, <1>7

LEMMA BitReplaces ==
    ASSUME NEW known, NEW e, e.width = 1, NEW p \in BOOLEAN,
           \A inputWords \in family.inputs :
              ValueOver(known, e, inputWords) # Undefined =>
                 ValueOver(known, e, inputWords) = Bit(p)
    PROVE  Replaces(known, e, BitValue(p))
<1>1. e.width \in 1 .. I64 /\ Bit(p) \in Word(e.width)
  BY WidthFacts, ZeroAndOne DEF Bit
<1>2. BitValue(p) = ConstantValue(e.width, Bit(p))
  BY DEF BitValue, Bit
<1> QED
  BY <1>1, <1>2, ConstantReplaces

LEMMA ZeroTestSimplified ==
    ASSUME NEW known, Meant(known), NEW e, Shaped(DOMAIN known, e), e.op = "zeroTest"
    PROVE  Replaces(known, e, SimplifyZeroTest(e))
<1>1. PICK a \in DOMAIN known : e.operator \in ZeroTests /\ e.inputs = <<a>> /\ e.width = 1
  BY DEF Shaped
<1> DEFINE direct == e.operator = "nonzero" /\ a.width = 1
           V(inputWords) == ValueOver(known, e, inputWords)
           X(inputWords) == known[a][inputWords]
<1>2. Replaces(known, e, e)
  BY ItselfReplaces
<1>3. \A inputWords \in family.inputs :
         V(inputWords) # Undefined =>
            /\ X(inputWords) \in Word(a.width)
            /\ V(inputWords) = Bit(EvaluateZeroTest(e.operator, X(inputWords)))
            /\ a.op = "constant" => X(inputWords) = a.value
  <2> SUFFICES ASSUME NEW inputWords \in family.inputs, V(inputWords) # Undefined
               PROVE  /\ X(inputWords) \in Word(a.width)
                      /\ V(inputWords) = Bit(EvaluateZeroTest(e.operator, X(inputWords)))
                      /\ a.op = "constant" => X(inputWords) = a.value
    OBVIOUS
  <2>1. V(inputWords) = IF X(inputWords) = Undefined THEN Undefined
                        ELSE Bit(EvaluateZeroTest(e.operator, X(inputWords)))
    BY <1>1, ZeroTestOver
  <2>2. /\ X(inputWords) \in {Undefined} \cup Word(a.width)
        /\ MayKnow(ConstantOf(a), X(inputWords))
    BY OperandIsKnown
  <2>3. a.op = "constant" => ConstantOf(a) = a.value
    BY DEF ConstantOf
  <2>4. a.op = "constant" => a.value # Undefined
    BY DEF Meant, Shaped, Word, Undefined
  <2> QED
    BY <2>1, <2>2, <2>3, <2>4 DEF MayKnow
<1>4. direct => Replaces(known, e, a)
  <2> SUFFICES ASSUME direct
               PROVE  Replaces(known, e, a)
    OBVIOUS
  <2>1. ASSUME NEW inputWords \in family.inputs, V(inputWords) # Undefined
        PROVE  X(inputWords) = V(inputWords)
    <3>1. X(inputWords) \in Word(1)
      BY <1>3, <2>1
    <3>2. X(inputWords) = 0 \/ X(inputWords) = 1
      BY <3>1, PowersOfTwo DEF Word
    <3>3. V(inputWords) = Bit(EvaluateZeroTest("nonzero", X(inputWords)))
      BY <1>3, <2>1
    <3> HIDE DEF V, X
    <3> QED
      BY <3>2, <3>3 DEF Bit, EvaluateZeroTest
  <2> QED
    BY <1>1, <2>1, OperandReplaces
<1>5. a.op = "constant" => Replaces(known, e, BitValue(EvaluateZeroTest(e.operator, a.value)))
  <2> SUFFICES ASSUME a.op = "constant"
               PROVE  Replaces(known, e, BitValue(EvaluateZeroTest(e.operator, a.value)))
    OBVIOUS
  <2> DEFINE p == EvaluateZeroTest(e.operator, a.value)
  <2>1. p \in BOOLEAN
    BY DEF EvaluateZeroTest
  <2>2. \A inputWords \in family.inputs : V(inputWords) # Undefined => V(inputWords) = Bit(p)
    BY <1>3
  <2> HIDE DEF p
  <2>3. Replaces(known, e, BitValue(p))
    BY <1>1, <2>1, <2>2, BitReplaces
  <2> QED
    BY <2>3 DEF p
<1>6. SimplifyZeroTest(e) =
         CASE direct -> a
           [] a.op = "constant" /\ ~direct -> BitValue(EvaluateZeroTest(e.operator, a.value))
           [] OTHER -> e
  BY <1>1 DEF SimplifyZeroTest
<1> HIDE DEF direct
<1> QED
  BY <1>2, <1>4, <1>5, <1>6

LEMMA ComparisonSimplified ==
    ASSUME NEW known, Meant(known), NEW e, Shaped(DOMAIN known, e), e.op = "compare"
    PROVE  Replaces(known, e, SimplifyComparison(e))
<1>1. PICK a \in DOMAIN known, b \in DOMAIN known :
         /\ e.operator \in Comparisons /\ e.inputs = <<a, b>>
         /\ a.width = b.width /\ e.width = 1
  BY DEF Shaped
<1> DEFINE w == a.width
           left == ConstantOf(a)
           right == ConstantOf(b)
           against == IF e.operator = "eq" THEN "eqz" ELSE "nonzero"
           V(inputWords) == ValueOver(known, e, inputWords)
           X(inputWords) == known[a][inputWords]
           Y(inputWords) == known[b][inputWords]
           reflexive == e.operator \in {"eq", "le_u", "ge_u", "le_s", "ge_s"}
<1>2. w \in Nat /\ w > 0
  BY OperandIsKnown, WidthFacts
<1>3. \A inputWords \in family.inputs :
         V(inputWords) # Undefined =>
            /\ X(inputWords) \in Word(w) /\ Y(inputWords) \in Word(w)
            /\ MayKnow(left, X(inputWords)) /\ MayKnow(right, Y(inputWords))
            /\ V(inputWords) = Bit(EvaluateComparison(e.operator, w, X(inputWords), Y(inputWords)))
  <2> SUFFICES ASSUME NEW inputWords \in family.inputs, V(inputWords) # Undefined
               PROVE  /\ X(inputWords) \in Word(w) /\ Y(inputWords) \in Word(w)
                      /\ MayKnow(left, X(inputWords)) /\ MayKnow(right, Y(inputWords))
                      /\ V(inputWords) =
                            Bit(EvaluateComparison(e.operator, w, X(inputWords), Y(inputWords)))
    OBVIOUS
  <2>1. V(inputWords) = IF X(inputWords) = Undefined \/ Y(inputWords) = Undefined THEN Undefined
                        ELSE Bit(EvaluateComparison(e.operator, w, X(inputWords), Y(inputWords)))
    BY <1>1, ComparisonOver
  <2>2. /\ X(inputWords) \in {Undefined} \cup Word(w) /\ Y(inputWords) \in {Undefined} \cup Word(w)
        /\ MayKnow(left, X(inputWords)) /\ MayKnow(right, Y(inputWords))
    BY <1>1, OperandIsKnown
  <2> QED
    BY <2>1, <2>2
<1>4. Replaces(known, e, e)
  BY ItselfReplaces
<1>5. CASE left # Undefined /\ right # Undefined
  <2> DEFINE p == EvaluateComparison(e.operator, w, left, right)
  <2>1. left \in Word(w) /\ right \in Word(w)
    BY <1>1, <1>5, OperandIsKnown
  <2>2. p \in BOOLEAN
    <3> HIDE DEF left, right, w
    <3> QED
      BY <1>1, <1>2, <2>1, ComparisonIsBoolean
  <2>3. \A inputWords \in family.inputs : V(inputWords) # Undefined => V(inputWords) = Bit(p)
    BY <1>3, <1>5 DEF MayKnow
  <2>4. SimplifyComparison(e) = BitValue(p)
    BY <1>1, <1>5 DEF SimplifyComparison
  <2> HIDE DEF p
  <2> QED
    BY <1>1, <2>2, <2>3, <2>4, BitReplaces
<1>6. CASE ~(left # Undefined /\ right # Undefined)
  <2>1. a = b => Replaces(known, e, BitValue(reflexive))
    <3> SUFFICES ASSUME a = b
                 PROVE  Replaces(known, e, BitValue(reflexive))
      OBVIOUS
    <3>1. ASSUME NEW inputWords \in family.inputs, V(inputWords) # Undefined
          PROVE  V(inputWords) = Bit(reflexive)
      <4>1. /\ X(inputWords) \in Word(w) /\ X(inputWords) = Y(inputWords)
            /\ V(inputWords) = Bit(EvaluateComparison(e.operator, w, X(inputWords), Y(inputWords)))
        BY <1>3, <3>1
      <4> HIDE DEF V, X, Y, w
      <4>2. EvaluateComparison(e.operator, w, X(inputWords), X(inputWords)) = reflexive
        BY <1>1, <1>2, <4>1, SameCompared
      <4> QED
        BY <4>1, <4>2
    <3>2. reflexive \in BOOLEAN
      OBVIOUS
    <3> HIDE DEF reflexive
    <3> QED
      BY <1>1, <3>1, <3>2, BitReplaces
  <2>2. ASSUME NEW c \in {a, b}, e.operator \in {"eq", "ne"},
               (c = b /\ left = 0) \/ (c = a /\ right = 0)
        PROVE  Replaces(known, e, SimplifyZeroTest(ZeroTestValue(against, c)))
    <3> DEFINE z == ZeroTestValue(against, c)
    <3>1. z = Expression("zeroTest", against, 0, 1, <<c>>)
      BY DEF ZeroTestValue
    <3>2. /\ z.op = "zeroTest" /\ z.operator = against /\ z.value = 0 /\ z.width = 1
          /\ z.inputs = <<c>>
      BY <3>1 DEF Expression
    <3> HIDE DEF z
    <3>3. Shaped(DOMAIN known, z)
      <4>1. c \in DOMAIN known /\ against \in ZeroTests /\ z.width \in 1 .. I64
        BY <2>2, <3>2, WidthFacts DEF ZeroTests
      <4> HIDE DEF against
      <4> QED
        BY <3>1, <3>2, <4>1 DEF Shaped
    <3>4. ASSUME NEW inputWords \in family.inputs, V(inputWords) # Undefined
          PROVE  ValueOver(known, z, inputWords) = V(inputWords)
      <4> DEFINE U == known[c][inputWords]
      <4>1. /\ X(inputWords) \in Word(w) /\ Y(inputWords) \in Word(w)
            /\ MayKnow(left, X(inputWords)) /\ MayKnow(right, Y(inputWords))
            /\ V(inputWords) = Bit(EvaluateComparison(e.operator, w, X(inputWords), Y(inputWords)))
        BY <1>3, <3>4
      <4>2. ValueOver(known, z, inputWords) =
               IF U = Undefined THEN Undefined ELSE Bit(EvaluateZeroTest(against, U))
        BY <3>2, ZeroTestOver
      <4>3. Undefined # 0 /\ Undefined \notin Word(w)
        BY DEF Undefined, Word
      <4>4. \/ U = Y(inputWords) /\ X(inputWords) = 0
            \/ U = X(inputWords) /\ Y(inputWords) = 0
        BY <2>2, <4>1, <4>3 DEF MayKnow
      <4>5. U # Undefined
        BY <4>1, <4>3, <4>4
      <4> HIDE DEF U, V, X, Y, w, left, right
      <4>6. EvaluateComparison(e.operator, w, X(inputWords), Y(inputWords)) =
               EvaluateZeroTest(against, U)
        BY <2>2, <4>4, ComparedWithZero
      <4> QED
        BY <4>1, <4>2, <4>5, <4>6
    <3>5. Replaces(known, e, z)
      BY <1>1, <3>2, <3>3, <3>4 DEF Replaces
    <3>6. Replaces(known, z, SimplifyZeroTest(z))
      BY <3>2, <3>3, ZeroTestSimplified
    <3> QED
      BY <3>5, <3>6, ReplacedAgain DEF z
  <2>3. SimplifyComparison(e) =
           CASE a = b -> BitValue(reflexive)
             [] a # b /\ e.operator \in {"eq", "ne"} /\ left = 0 ->
                   SimplifyZeroTest(ZeroTestValue(against, b))
             [] a # b /\ e.operator \in {"eq", "ne"} /\ right = 0 ->
                   SimplifyZeroTest(ZeroTestValue(against, a))
             [] OTHER -> e
    BY <1>1, <1>6 DEF SimplifyComparison
  <2> DEFINE zeroB == SimplifyZeroTest(ZeroTestValue(against, b))
             zeroA == SimplifyZeroTest(ZeroTestValue(against, a))
  <2>4. /\ e.operator \in {"eq", "ne"} /\ left = 0 => Replaces(known, e, zeroB)
        /\ e.operator \in {"eq", "ne"} /\ right = 0 => Replaces(known, e, zeroA)
    BY <2>2
  <2> HIDE DEF zeroA, zeroB, reflexive, left, right
  <2>5. \/ a = b /\ SimplifyComparison(e) = BitValue(reflexive)
        \/ e.operator \in {"eq", "ne"} /\ left = 0 /\ SimplifyComparison(e) = zeroB
        \/ e.operator \in {"eq", "ne"} /\ right = 0 /\ SimplifyComparison(e) = zeroA
        \/ SimplifyComparison(e) = e
    BY <2>3 DEF zeroA, zeroB
  <2> QED
    BY <1>4, <2>1, <2>4, <2>5
<1> QED
  BY <1>5, <1>6

LEMMA SelectSimplified ==
    ASSUME NEW known, Meant(known), NEW e, Shaped(DOMAIN known, e), e.op = "select"
    PROVE  Replaces(known, e, SimplifySelect(e))
<1>1. PICK c \in DOMAIN known, a \in DOMAIN known, b \in DOMAIN known :
         e.inputs = <<c, a, b>> /\ c.width = 1 /\ a.width = e.width /\ b.width = e.width
  BY DEF Shaped
<1> DEFINE condition == ConstantOf(c)
           V(inputWords) == ValueOver(known, e, inputWords)
<1>2. Replaces(known, e, e)
  BY ItselfReplaces
<1>3. \A inputWords \in family.inputs :
         V(inputWords) # Undefined =>
            /\ known[c][inputWords] \in {0, 1} /\ MayKnow(condition, known[c][inputWords])
            /\ V(inputWords) = IF known[c][inputWords] = 1 THEN known[a][inputWords]
                               ELSE known[b][inputWords]
  <2> SUFFICES ASSUME NEW inputWords \in family.inputs, V(inputWords) # Undefined
               PROVE  /\ known[c][inputWords] \in {0, 1} /\ MayKnow(condition, known[c][inputWords])
                      /\ V(inputWords) = IF known[c][inputWords] = 1 THEN known[a][inputWords]
                                         ELSE known[b][inputWords]
    OBVIOUS
  <2>1. V(inputWords) =
           IF \/ known[c][inputWords] = Undefined \/ known[a][inputWords] = Undefined
              \/ known[b][inputWords] = Undefined
           THEN Undefined
           ELSE IF known[c][inputWords] = 1 THEN known[a][inputWords] ELSE known[b][inputWords]
    BY <1>1, SelectOver
  <2>2. /\ known[c][inputWords] \in {Undefined} \cup Word(1)
        /\ MayKnow(condition, known[c][inputWords])
    BY <1>1, OperandIsKnown
  <2>3. \A z \in Word(1) : z \in {0, 1}
    BY PowersOfTwo DEF Word
  <2> QED
    BY <2>1, <2>2, <2>3
<1>4. a = b => Replaces(known, e, a)
  BY <1>1, <1>3, OperandReplaces
<1>5. condition # Undefined /\ condition = 0 => Replaces(known, e, b)
  BY <1>1, <1>3, OperandReplaces DEF MayKnow
<1>6. condition # Undefined /\ condition # 0 => Replaces(known, e, a)
  BY <1>1, <1>3, OperandReplaces DEF MayKnow
<1>7. SimplifySelect(e) =
         CASE a = b -> a
           [] a # b /\ condition # Undefined -> IF condition = 0 THEN b ELSE a
           [] OTHER -> e
  BY <1>1 DEF SimplifySelect
<1> HIDE DEF condition
<1> QED
  BY <1>2, <1>4, <1>5, <1>6, <1>7

LEMMA UnarySimplified ==
    ASSUME family \in Families, NEW known, Meant(known), NEW e, Shaped(DOMAIN known, e),
           e.op \in {"bitCount", "extend", "truncate"}
    PROVE  Replaces(known, e, SimplifyUnary(e))
<1>1. PICK a \in DOMAIN known : e.inputs = <<a>>
  BY DEF Shaped
<1> DEFINE V(inputWords) == ValueOver(known, e, inputWords)
           value == CASE e.op = "bitCount" -> EvaluateBitCount(e.operator, e.width, a.value)
                      [] e.op = "extend"   ->
                            EvaluateExtension(e.width, a.width, e.operator = "signed", a.value)
                      [] e.op = "truncate" -> EvaluateTruncation(e.width, a.value)
<1>2. SimplifyUnary(e) = IF a.op # "constant" THEN e ELSE ConstantValue(e.width, value)
  BY <1>1 DEF SimplifyUnary
<1>3. CASE a.op # "constant"
  BY <1>2, <1>3, ItselfReplaces
<1>4. CASE a.op = "constant"
  <2>1. /\ ConstantOf(a) = a.value /\ a.value \in Word(a.width) /\ a.value # Undefined
        /\ a.width \in 1 .. I64
    BY <1>4 DEF ConstantOf, Meant, Shaped, Word, Undefined
  <2>2. \A inputWords \in family.inputs : known[a][inputWords] = a.value
    BY <2>1, OperandIsKnown
  <2>3. \A inputWords \in family.inputs : V(inputWords) = value
    <3> TAKE inputWords \in family.inputs
    <3>1. known[a][inputWords] = a.value /\ a.value # Undefined
      BY <2>1, <2>2
    <3>2. CASE e.op = "bitCount"
      BY <1>1, <3>1, <3>2, BitCountOver
    <3>3. CASE e.op = "extend"
      BY <1>1, <3>1, <3>3, ExtensionOver
    <3>4. CASE e.op = "truncate"
      BY <1>1, <3>1, <3>4, TruncationOver
    <3> QED
      BY <3>2, <3>3, <3>4
  <2>4. e.width \in 1 .. I64 /\ e.width \in Nat /\ e.width > 0
    BY WidthFacts DEF Shaped
  <2>5. value \in Word(e.width)
    <3>1. \A z \in Int : NormalizeInteger(e.width, z) \in Word(e.width)
      BY <2>4, WrappedIsWord DEF NormalizeInteger
    <3>2. CASE e.op = "bitCount"
      <4>1. e.operator \in BitCounts /\ a.width = e.width
        <5>1. PICK d \in DOMAIN known :
                 e.operator \in BitCounts /\ e.inputs = <<d>> /\ d.width = e.width
          BY <3>2 DEF Shaped
        <5>2. d = a
          BY <1>1, <5>1
        <5> QED
          BY <5>1, <5>2
      <4>2. e.width <= I64 /\ a.value \in Word(e.width)
        BY <2>1, <2>4, <4>1, WidthFacts
      <4>3. value = EvaluateBitCount(e.operator, e.width, a.value)
        BY <3>2
      <4> HIDE DEF value
      <4>4. value \in 0 .. e.width
        BY <2>4, <4>1, <4>2, <4>3, BitCountRange
      <4> DEFINE p == 2^e.width
      <4>5. e.width < p /\ p \in Nat
        BY <2>4, PowersExceed, PowerStep
      <4> HIDE DEF p
      <4>6. value \in 0 .. p - 1
        BY <2>4, <4>4, <4>5
      <4> QED
        BY <4>6 DEF p, Word
    <3>3. CASE e.op \in {"extend", "truncate"}
      <4>1. a.value \in Int /\ SignedInteger(a.width, a.value) \in Int
        BY <2>1, WidthFacts, SignedZero DEF Word
      <4>2. value \in {NormalizeInteger(e.width, a.value),
                       NormalizeInteger(e.width, SignedInteger(a.width, a.value))}
        BY <3>3 DEF EvaluateExtension, EvaluateTruncation
      <4> HIDE DEF value
      <4> QED
        BY <3>1, <4>1, <4>2
    <3> QED
      BY <3>2, <3>3
  <2> HIDE DEF value
  <2>6. Replaces(known, e, ConstantValue(e.width, value))
    BY <2>3, <2>4, <2>5, ConstantReplaces
  <2> QED
    BY <1>2, <1>4, <2>6
<1> QED
  BY <1>3, <1>4

\* An operation is replaced by something of its width that has its value.
LEMMA SimplificationReplaces ==
    ASSUME family \in Families, NEW known, Meant(known), NEW e, Shaped(DOMAIN known, e),
           e.op \notin {"source", "constant", "unreachable"}
    PROVE  Replaces(known, e, Simplify(e))
<1>1. e.op \in {"binary", "compare", "zeroTest", "select", "bitCount", "extend", "truncate"}
  BY DEF Shaped
<1>2. CASE e.op = "binary"
  BY <1>2, BinarySimplified DEF Simplify
<1>3. CASE e.op = "compare"
  BY <1>3, ComparisonSimplified DEF Simplify
<1>4. CASE e.op = "zeroTest"
  BY <1>4, ZeroTestSimplified DEF Simplify
<1>5. CASE e.op = "select"
  BY <1>5, SelectSimplified DEF Simplify
<1>6. CASE e.op \in {"bitCount", "extend", "truncate"}
  BY <1>6, UnarySimplified DEF Simplify
<1> QED
  BY <1>1, <1>2, <1>3, <1>4, <1>5, <1>6

-----------------------------------------------------------------------------
(***************************************************************************)
(* The resolver's table.                                                   *)
(***************************************************************************)

\* The table is complete, and what a value is resolved to has its width and value.
Consistent(known) ==
    /\ Meant(known.meaning)
    /\ DOMAIN known.resolution \subseteq DOMAIN known.meaning
    /\ \A e \in DOMAIN known.resolution :
          /\ known.resolution[e] \in DOMAIN known.meaning
          /\ known.resolution[e].width = e.width
          /\ \A inputWords \in family.inputs :
                known.meaning[e][inputWords] # Undefined =>
                   known.meaning[known.resolution[e]][inputWords] = known.meaning[e][inputWords]

LEMMA InputsAreKnown ==
    ASSUME NEW D, NEW e, Shaped(D, e)
    PROVE  \A i \in DOMAIN e.inputs : e.inputs[i] \in D
<1>1. CASE e.inputs = <<>>
  BY <1>1
<1>2. ASSUME NEW a \in D, e.inputs = <<a>>
      PROVE  \A i \in DOMAIN e.inputs : e.inputs[i] \in D
  BY <1>2
<1>3. ASSUME NEW a \in D, NEW b \in D, e.inputs = <<a, b>>
      PROVE  \A i \in DOMAIN e.inputs : e.inputs[i] \in D
  BY <1>3
<1>4. ASSUME NEW c \in D, NEW a \in D, NEW b \in D, e.inputs = <<c, a, b>>
      PROVE  \A i \in DOMAIN e.inputs : e.inputs[i] \in D
  BY <1>4
<1>5. \/ e.inputs = <<>>
      \/ \E a \in D : e.inputs = <<a>>
      \/ \E a, b \in D : e.inputs = <<a, b>>
      \/ \E c, a, b \in D : e.inputs = <<c, a, b>>
  BY DEF Shaped
<1> QED
  BY <1>1, <1>2, <1>3, <1>4, <1>5

LEMMA ShapedOverMore ==
    ASSUME NEW D, NEW E, D \subseteq E, NEW e, Shaped(D, e)
    PROVE  Shaped(E, e)
<1>1. /\ e = Expression(e.op, e.operator, e.value, e.width, e.inputs)
      /\ e.width \in 1 .. I64
  BY DEF Shaped
<1>2. \A x \in D : x \in E
  OBVIOUS
<1> QED
  BY <1>1, <1>2 DEF Shaped

LEMMA MeaningAdded ==
    ASSUME family \in Families, NEW known, Meant(known), NEW e, Shaped(DOMAIN known, e)
    PROVE  /\ Meant(WithMeaning(known, e))
           /\ DOMAIN WithMeaning(known, e) = DOMAIN known \cup {e}
           /\ \A x \in DOMAIN known : WithMeaning(known, e)[x] = known[x]
           /\ \A inputWords \in family.inputs :
                 WithMeaning(known, e)[e][inputWords] = ValueOver(known, e, inputWords)
<1> DEFINE more == WithMeaning(known, e)
           D == DOMAIN known
<1>1. more = [x \in D \cup {e} |-> IF x \in D THEN known[x] ELSE MeaningOf(known, e)]
  BY DEF WithMeaning, WithEntry
<1>3. /\ DOMAIN more = D \cup {e}
      /\ \A x \in D : more[x] = known[x]
      /\ e \notin D => more[e] = MeaningOf(known, e)
  BY <1>1
<1>4. \A inputWords \in family.inputs : MeaningOf(known, e)[inputWords] = ValueOver(known, e, inputWords)
  BY DEF MeaningOf, ValueOver
<1> HIDE DEF more
<1>5. \A inputWords \in family.inputs : more[e][inputWords] = ValueOver(known, e, inputWords)
  <2>1. CASE e \in D
    BY <1>3, <2>1 DEF Meant
  <2>2. CASE e \notin D
    BY <1>3, <1>4, <2>2
  <2> QED
    BY <2>1, <2>2
<1>6. ASSUME NEW x, Shaped(D, x), NEW inputWords
      PROVE  ValueOver(more, x, inputWords) = ValueOver(known, x, inputWords)
  <2>1. \A i \in DOMAIN x.inputs : x.inputs[i] \in D
    BY <1>6, InputsAreKnown
  <2>2. [i \in DOMAIN x.inputs |-> more[x.inputs[i]][inputWords]] =
        [i \in DOMAIN x.inputs |-> known[x.inputs[i]][inputWords]]
    BY <1>3, <2>1
  <2> QED
    BY <2>2 DEF ValueOver
<1>7. \A x \in D \cup {e} : Shaped(D, x)
  BY DEF Meant
<1>8. ASSUME NEW x \in D \cup {e}, NEW inputWords \in family.inputs
      PROVE  more[x][inputWords] = ValueOver(known, x, inputWords)
  <2>1. CASE x = e
    BY <1>5, <2>1
  <2>2. CASE x \in D
    BY <1>3, <2>2 DEF Meant
  <2> QED
    BY <2>1, <2>2
<1>9. Meant(more)
  <2> SUFFICES ASSUME NEW x \in D \cup {e}
               PROVE  /\ Shaped(D \cup {e}, x)
                      /\ \A inputWords \in family.inputs :
                            /\ more[x][inputWords] \in {Undefined} \cup Word(x.width)
                            /\ more[x][inputWords] = ValueOver(more, x, inputWords)
    BY <1>3 DEF Meant
  <2>1. Shaped(D \cup {e}, x)
    BY <1>7, ShapedOverMore
  <2> QED
    BY <1>6, <1>7, <1>8, <2>1, ValueRange
<1> QED
  BY <1>3, <1>5, <1>9 DEF more

\* An operation over what its operands are resolved to has its value.
LEMMA OverResolvedOperands ==
    ASSUME family \in Families, NEW known, Consistent(known), NEW e,
           Shaped(DOMAIN known.resolution, e), e.op \notin {"source", "constant", "unreachable"}
    PROVE  /\ OverResolved(known, e).op = e.op
           /\ Replaces(known.meaning, e, OverResolved(known, e))
<1> DEFINE D == DOMAIN known.meaning
           R(a) == known.resolution[a]
           resolved == [i \in DOMAIN e.inputs |-> R(e.inputs[i])]
           o == OverResolved(known, e)
           M(a, inputWords) == known.meaning[a][inputWords]
<1>1. e = Expression(e.op, e.operator, e.value, e.width, e.inputs) /\ e.width \in 1 .. I64
  BY DEF Shaped
<1>2. o = Expression(e.op, e.operator, e.value, e.width, resolved)
  <2>1. e = [op |-> e.op, operator |-> e.operator, value |-> e.value, width |-> e.width,
             inputs |-> e.inputs]
    BY <1>1 DEF Expression
  <2>2. o = [e EXCEPT !.inputs = resolved]
    BY DEF OverResolved
  <2> HIDE DEF resolved, o
  <2> QED
    BY <2>1, <2>2 DEF Expression
<1>3. /\ o.op = e.op /\ o.operator = e.operator /\ o.value = e.value /\ o.width = e.width
      /\ o.inputs = resolved
  BY <1>2 DEF Expression
<1>4. \A a \in DOMAIN known.resolution :
         /\ R(a) \in D /\ R(a).width = a.width
         /\ \A inputWords \in family.inputs :
               M(a, inputWords) # Undefined => M(R(a), inputWords) = M(a, inputWords)
  BY DEF Consistent
<1> HIDE DEF o
<1>5. o = Expression(o.op, o.operator, o.value, o.width, o.inputs) /\ o.width \in 1 .. I64
  BY <1>1, <1>2, <1>3
<1>6. SUFFICES Replaces(known.meaning, e, o)
  BY <1>3 DEF o
<1>7. ASSUME NEW a \in DOMAIN known.resolution, e.inputs = <<a>>
      PROVE  Replaces(known.meaning, e, o)
  <2>1. o.inputs = <<R(a)>>
    BY <1>3, <1>7
  <2>2. R(a) \in D /\ R(a).width = a.width
    BY <1>4
  <2>3. Shaped(D, o)
    <3>1. /\ e.op = "zeroTest" => e.operator \in ZeroTests /\ e.width = 1
          /\ e.op = "bitCount" => e.operator \in BitCounts /\ a.width = e.width
          /\ e.op \in {"zeroTest", "bitCount", "extend", "truncate"}
      BY <1>7 DEF Shaped
    <3> HIDE DEF R
    <3> QED
      BY <1>3, <1>5, <2>1, <2>2, <3>1 DEF Shaped
  <2>4. ASSUME NEW inputWords \in family.inputs,
               ValueOver(known.meaning, e, inputWords) # Undefined
        PROVE  ValueOver(known.meaning, o, inputWords) = ValueOver(known.meaning, e, inputWords)
    <3>1. ValueOver(known.meaning, e, inputWords) =
             IF M(a, inputWords) = Undefined THEN Undefined
             ELSE Operation(e, <<M(a, inputWords)>>)
      BY <1>7, OneOperand
    <3>2. ValueOver(known.meaning, o, inputWords) =
             IF M(R(a), inputWords) = Undefined THEN Undefined
             ELSE Operation(o, <<M(R(a), inputWords)>>)
      BY <1>3, <2>1, OneOperand
    <3>3. M(R(a), inputWords) = M(a, inputWords)
      BY <1>4, <2>4, <3>1
    <3>4. \A values : Operation(o, values) = Operation(e, values)
      <4>1. e.inputs[1].width = o.inputs[1].width
        BY <1>7, <2>1, <2>2
      <4> QED
        BY <1>3, <4>1 DEF Operation
    <3> HIDE DEF M, R
    <3> QED
      BY <3>1, <3>2, <3>3, <3>4
  <2> QED
    BY <1>3, <2>3, <2>4 DEF Replaces
<1>8. ASSUME NEW a \in DOMAIN known.resolution, NEW b \in DOMAIN known.resolution, e.inputs = <<a, b>>
      PROVE  Replaces(known.meaning, e, o)
  <2>1. o.inputs = <<R(a), R(b)>>
    BY <1>3, <1>8
  <2>2. R(a) \in D /\ R(a).width = a.width /\ R(b) \in D /\ R(b).width = b.width
    BY <1>4
  <2>3. Shaped(D, o)
    <3>1. \/ /\ e.op = "binary" /\ e.operator \in BinaryOperators
             /\ a.width = e.width /\ b.width = CountWidth(e.operator, e.width)
          \/ /\ e.op = "compare" /\ e.operator \in Comparisons
             /\ a.width = b.width /\ e.width = 1
      BY <1>8 DEF Shaped
    <3> HIDE DEF R
    <3> QED
      BY <1>3, <1>5, <2>1, <2>2, <3>1 DEF Shaped
  <2>4. ASSUME NEW inputWords \in family.inputs,
               ValueOver(known.meaning, e, inputWords) # Undefined
        PROVE  ValueOver(known.meaning, o, inputWords) = ValueOver(known.meaning, e, inputWords)
    <3>1. ValueOver(known.meaning, e, inputWords) =
             IF M(a, inputWords) = Undefined \/ M(b, inputWords) = Undefined THEN Undefined
             ELSE Operation(e, <<M(a, inputWords), M(b, inputWords)>>)
      BY <1>8, TwoOperands
    <3>2. ValueOver(known.meaning, o, inputWords) =
             IF M(R(a), inputWords) = Undefined \/ M(R(b), inputWords) = Undefined THEN Undefined
             ELSE Operation(o, <<M(R(a), inputWords), M(R(b), inputWords)>>)
      BY <1>3, <2>1, TwoOperands
    <3>3. M(R(a), inputWords) = M(a, inputWords) /\ M(R(b), inputWords) = M(b, inputWords)
      BY <1>4, <2>4, <3>1
    <3>4. \A values : Operation(o, values) = Operation(e, values)
      <4>1. e.inputs[1].width = o.inputs[1].width
        BY <1>8, <2>1, <2>2
      <4> QED
        BY <1>3, <4>1 DEF Operation
    <3> HIDE DEF M, R
    <3> QED
      BY <3>1, <3>2, <3>3, <3>4
  <2> QED
    BY <1>3, <2>3, <2>4 DEF Replaces
<1>9. ASSUME NEW c \in DOMAIN known.resolution, NEW a \in DOMAIN known.resolution,
             NEW b \in DOMAIN known.resolution, e.inputs = <<c, a, b>>
      PROVE  Replaces(known.meaning, e, o)
  <2>1. o.inputs = <<R(c), R(a), R(b)>>
    BY <1>3, <1>9
  <2>2. /\ R(a) \in D /\ R(a).width = a.width /\ R(b) \in D /\ R(b).width = b.width
        /\ R(c) \in D /\ R(c).width = c.width
    BY <1>4
  <2>3. Shaped(D, o)
    <3>1. e.op = "select" /\ c.width = 1 /\ a.width = e.width /\ b.width = e.width
      BY <1>9 DEF Shaped
    <3> HIDE DEF R
    <3> QED
      BY <1>3, <1>5, <2>1, <2>2, <3>1 DEF Shaped
  <2>4. ASSUME NEW inputWords \in family.inputs,
               ValueOver(known.meaning, e, inputWords) # Undefined
        PROVE  ValueOver(known.meaning, o, inputWords) = ValueOver(known.meaning, e, inputWords)
    <3>1. ValueOver(known.meaning, e, inputWords) =
             IF M(c, inputWords) = Undefined \/ M(a, inputWords) = Undefined
                   \/ M(b, inputWords) = Undefined
             THEN Undefined
             ELSE Operation(e, <<M(c, inputWords), M(a, inputWords), M(b, inputWords)>>)
      BY <1>9, ThreeOperands
    <3>2. ValueOver(known.meaning, o, inputWords) =
             IF M(R(c), inputWords) = Undefined \/ M(R(a), inputWords) = Undefined
                   \/ M(R(b), inputWords) = Undefined
             THEN Undefined
             ELSE Operation(o, <<M(R(c), inputWords), M(R(a), inputWords), M(R(b), inputWords)>>)
      BY <1>3, <2>1, ThreeOperands
    <3>3. /\ M(R(c), inputWords) = M(c, inputWords) /\ M(R(a), inputWords) = M(a, inputWords)
          /\ M(R(b), inputWords) = M(b, inputWords)
      BY <1>4, <2>4, <3>1
    <3>4. \A values : Operation(o, values) = Operation(e, values)
      <4>1. e.op = "select"
        BY <1>9 DEF Shaped
      <4> QED
        BY <1>3, <4>1 DEF Operation
    <3> HIDE DEF M, R
    <3> QED
      BY <3>1, <3>2, <3>3, <3>4
  <2> QED
    BY <1>3, <2>3, <2>4 DEF Replaces
<1>10. \/ \E a \in DOMAIN known.resolution : e.inputs = <<a>>
       \/ \E a, b \in DOMAIN known.resolution : e.inputs = <<a, b>>
       \/ \E c, a, b \in DOMAIN known.resolution : e.inputs = <<c, a, b>>
  BY DEF Shaped
<1> QED
  BY <1>7, <1>8, <1>9, <1>10

\* Resolving a value over resolved values keeps the table consistent.
LEMMA ResolveKeeps ==
    ASSUME family \in Families, NEW known, Consistent(known), NEW e,
           \/ e \in DOMAIN known.resolution
           \/ /\ Shaped(DOMAIN known.resolution, e)
              /\ e.op \notin {"source", "constant", "unreachable"}
    PROVE  /\ Consistent(Resolve(known, e))
           /\ DOMAIN Resolve(known, e).resolution = DOMAIN known.resolution \cup {e}
<1> DEFINE o == OverResolved(known, e)
           s == Simplify(o)
           one == WithMeaning(known.meaning, e)
           two == WithMeaning(one, s)
           more == WithEntry(known.resolution, e, s)
           next == Resolve(known, e)
           D == DOMAIN known.meaning
<1>1. CASE e \in DOMAIN known.resolution
  BY <1>1 DEF Resolve
<1>2. CASE e \notin DOMAIN known.resolution
  <2>1. next.resolution = more /\ next.meaning = two
    BY <1>2 DEF Resolve
  <2>2. /\ Meant(known.meaning) /\ DOMAIN known.resolution \subseteq D
        /\ Shaped(DOMAIN known.resolution, e) /\ e.op \notin {"source", "constant", "unreachable"}
    BY <1>2 DEF Consistent
  <2>3. o.op = e.op /\ Replaces(known.meaning, e, o)
    BY <2>2, OverResolvedOperands
  <2>4. Replaces(known.meaning, o, s)
    <3>1. Shaped(D, o) /\ o.op \notin {"source", "constant", "unreachable"}
      BY <2>2, <2>3 DEF Replaces
    <3> HIDE DEF o
    <3> QED
      BY <2>2, <3>1, SimplificationReplaces
  <2>5. Replaces(known.meaning, e, s)
    BY <2>3, <2>4, ReplacedAgain
  <2>6. Shaped(D, e)
    BY <2>2, ShapedOverMore
  <2> HIDE DEF o, s
  <2>7. /\ Meant(one) /\ DOMAIN one = D \cup {e}
        /\ \A x \in D : one[x] = known.meaning[x]
        /\ \A inputWords \in family.inputs :
              one[e][inputWords] = ValueOver(known.meaning, e, inputWords)
    BY <2>2, <2>6, MeaningAdded
  <2> HIDE DEF one
  <2>8. Shaped(DOMAIN one, s) /\ Shaped(D, s)
    BY <2>5, <2>7, ShapedOverMore DEF Replaces
  <2>9. /\ Meant(two) /\ DOMAIN two = (D \cup {e}) \cup {s}
        /\ \A x \in D \cup {e} : two[x] = one[x]
        /\ \A inputWords \in family.inputs : two[s][inputWords] = ValueOver(one, s, inputWords)
    <3>1. /\ Meant(WithMeaning(one, s)) /\ DOMAIN WithMeaning(one, s) = DOMAIN one \cup {s}
          /\ \A x \in DOMAIN one : WithMeaning(one, s)[x] = one[x]
          /\ \A inputWords \in family.inputs :
                WithMeaning(one, s)[s][inputWords] = ValueOver(one, s, inputWords)
      BY <2>7, <2>8, MeaningAdded
    <3> QED
      BY <2>7, <3>1
  <2> HIDE DEF two
  <2>10. \A inputWords : ValueOver(one, s, inputWords) = ValueOver(known.meaning, s, inputWords)
    <3>1. \A i \in DOMAIN s.inputs : s.inputs[i] \in D
      BY <2>8, InputsAreKnown
    <3> TAKE inputWords
    <3>2. [i \in DOMAIN s.inputs |-> one[s.inputs[i]][inputWords]] =
          [i \in DOMAIN s.inputs |-> known.meaning[s.inputs[i]][inputWords]]
      BY <2>7, <3>1
    <3> QED
      BY <3>2 DEF ValueOver
  <2>11. /\ DOMAIN more = DOMAIN known.resolution \cup {e}
         /\ \A x \in DOMAIN known.resolution : more[x] = known.resolution[x]
         /\ more[e] = s
    BY <1>2 DEF WithEntry
  <2> HIDE DEF more
  <2>12. ASSUME NEW x \in DOMAIN more
         PROVE  /\ x \in DOMAIN two /\ more[x] \in DOMAIN two
                /\ more[x].width = x.width
                /\ \A inputWords \in family.inputs :
                      two[x][inputWords] # Undefined => two[more[x]][inputWords] = two[x][inputWords]
    <3>1. CASE x = e
      <4>1. s.width = e.width
        BY <2>5 DEF Replaces
      <4>2. \A inputWords \in family.inputs :
               /\ two[e][inputWords] = ValueOver(known.meaning, e, inputWords)
               /\ two[s][inputWords] = ValueOver(known.meaning, s, inputWords)
        BY <2>7, <2>9, <2>10
      <4>3. \A inputWords \in family.inputs :
               two[e][inputWords] # Undefined => two[s][inputWords] = two[e][inputWords]
        BY <2>5, <4>2 DEF Replaces
      <4> QED
        BY <2>9, <2>11, <3>1, <4>1, <4>3
    <3>2. CASE x \in DOMAIN known.resolution
      <4>1. /\ known.resolution[x] \in D /\ known.resolution[x].width = x.width /\ x \in D
            /\ \A inputWords \in family.inputs :
                  known.meaning[x][inputWords] # Undefined =>
                     known.meaning[known.resolution[x]][inputWords] = known.meaning[x][inputWords]
        BY <2>2, <3>2 DEF Consistent
      <4>2. two[x] = known.meaning[x] /\ two[more[x]] = known.meaning[known.resolution[x]]
        BY <2>7, <2>9, <2>11, <3>2, <4>1
      <4> QED
        BY <2>9, <2>11, <3>2, <4>1, <4>2
    <3> QED
      BY <2>11, <3>1, <3>2
  <2>13. Consistent(next)
    <3> HIDE DEF next
    <3> QED
      BY <2>1, <2>9, <2>12 DEF Consistent
  <2> QED
    BY <2>1, <2>11, <2>13
<1> QED
  BY <1>1, <1>2

-----------------------------------------------------------------------------
(***************************************************************************)
(* The resolver in use.                                                    *)
(***************************************************************************)
ResolverInv ==
    /\ family \in Families
    /\ written \in Seq(DOMAIN resolution)
    /\ Leaves \subseteq DOMAIN resolution
    /\ Consistent(Known)

LEMMA LeavesAreShaped ==
    ASSUME family \in Families, NEW e \in Leaves
    PROVE  Shaped({}, e) /\ e.op \in {"source", "constant", "unreachable"}
<1>1. \A w \in Widths : w \in 1 .. I64
  BY WidthFacts DEF Widths
<1>2. ASSUME NEW i \in DOMAIN family.sources, e = SourceOf(i)
      PROVE  Shaped({}, e) /\ e.op \in {"source", "constant", "unreachable"}
  <2> DEFINE w == family.sources[i].width
  <2>1. w \in 1 .. I64
    BY <1>1, FamiliesAssumption
  <2> HIDE DEF w
  <2>2. e = Expression("source", "none", i, w, <<>>)
    BY <1>2 DEF SourceOf, SourceValue, w
  <2>3. /\ e.op = "source" /\ e.operator = "none" /\ e.value = i /\ e.width = w /\ e.inputs = <<>>
    BY <2>2 DEF Expression
  <2> QED
    BY <2>1, <2>2, <2>3 DEF Shaped
<1>3. ASSUME e \in family.constants
      PROVE  Shaped({}, e) /\ e.op \in {"source", "constant", "unreachable"}
  <2>1. /\ e.width \in Widths /\ e.value \in Nat
        /\ e \in {ConstantValue(e.width, e.value), UnreachableValue(e.width)}
    BY <1>3, FamiliesAssumption
  <2>2. PICK w, v : w = e.width /\ v = e.value /\ w \in 1 .. I64 /\ v \in Nat
    BY <1>1, <2>1
  <2>3. CASE e = ConstantValue(w, v)
    <3>1. NormalizeInteger(w, v) \in Word(w)
      BY <2>2, WidthFacts, WrappedIsWord DEF NormalizeInteger
    <3>2. e = Expression("constant", "none", NormalizeInteger(w, v), w, <<>>)
      BY <2>3 DEF ConstantValue
    <3>3. /\ e.op = "constant" /\ e.operator = "none" /\ e.value = NormalizeInteger(w, v)
          /\ e.width = w /\ e.inputs = <<>>
      BY <3>2 DEF Expression
    <3> QED
      BY <2>2, <3>1, <3>2, <3>3 DEF Shaped
  <2>4. CASE e = UnreachableValue(w)
    <3>1. e = Expression("unreachable", "none", 0, w, <<>>)
      BY <2>4 DEF UnreachableValue
    <3>2. e.op = "unreachable" /\ e.operator = "none" /\ e.value = 0 /\ e.width = w /\ e.inputs = <<>>
      BY <3>1 DEF Expression
    <3> QED
      BY <2>2, <3>1, <3>2 DEF Shaped
  <2> QED
    BY <2>1, <2>2, <2>3, <2>4
<1> QED
  BY <1>2, <1>3 DEF Leaves

LEMMA ResolverInitOK == ResolverInit => ResolverInv
<1> SUFFICES ASSUME ResolverInit
             PROVE  ResolverInv
  OBVIOUS
<1>1. /\ family \in Families /\ written = <<>>
      /\ resolution = [e \in Leaves |-> e]
      /\ meaning = [e \in Leaves |-> MeaningOf(<<>>, e)]
  BY DEF ResolverInit
<1>2. Meant(<<>>)
  BY DEF Meant
<1>3. \A e \in Leaves : Shaped({}, e) /\ e.op \in {"source", "constant", "unreachable"}
  BY <1>1, LeavesAreShaped
<1>4. ASSUME NEW e \in Leaves, NEW inputWords \in family.inputs
      PROVE  /\ meaning[e][inputWords] \in {Undefined} \cup Word(e.width)
             /\ meaning[e][inputWords] = ValueOver(meaning, e, inputWords)
  <2>1. meaning[e][inputWords] = ValueOver(<<>>, e, inputWords)
    BY <1>1 DEF MeaningOf, ValueOver
  <2>2. ValueOver(<<>>, e, inputWords) \in {Undefined} \cup Word(e.width)
    <3>1. DOMAIN <<>> = {}
      OBVIOUS
    <3> QED
      BY <1>1, <1>2, <1>3, <3>1, ValueRange
  <2>3. ValueOver(<<>>, e, inputWords) = ValueOver(meaning, e, inputWords)
    BY <1>3 DEF ValueOver, Evaluate
  <2> QED
    BY <2>1, <2>2, <2>3
<1>5. \A e \in Leaves : Shaped(Leaves, e)
  <2>1. {} \subseteq Leaves
    OBVIOUS
  <2> QED
    BY <1>3, <2>1, ShapedOverMore
<1>6. Meant(meaning)
  BY <1>1, <1>4, <1>5 DEF Meant
<1>7. DOMAIN resolution = Leaves /\ DOMAIN meaning = Leaves /\ \A e \in Leaves : resolution[e] = e
  BY <1>1
<1>8. Known.resolution = resolution /\ Known.meaning = meaning
  BY DEF Known
<1>9. Consistent(Known)
  BY <1>6, <1>7, <1>8 DEF Consistent
<1>10. written \in Seq(DOMAIN resolution)
  BY <1>1
<1> QED
  BY <1>1, <1>7, <1>9, <1>10 DEF ResolverInv

\* Consistency is of the entries and the family alone.
LEMMA ConsistentLater ==
    ASSUME NEW known, Consistent(known), family' = family,
           resolution' = known.resolution, meaning' = known.meaning
    PROVE  Consistent(Known)'
<1>1. (Known.resolution)' = known.resolution /\ (Known.meaning)' = known.meaning
  BY DEF Known
<1>2. \A D, e : Shaped(D, e) => Shaped(D, e)'
  BY DEF Shaped
<1>3. PICK k : k = Known'
  OBVIOUS
<1>4. k.resolution = known.resolution /\ k.meaning = known.meaning
  BY <1>1, <1>3
<1>5. Meant(k.meaning)'
  BY <1>2, <1>4 DEF Consistent, Meant, ValueOver
<1>6. Consistent(k)'
  BY <1>4, <1>5 DEF Consistent
<1> QED
  BY <1>3, <1>6

\* Writing a value over a table that extends the present one keeps the invariant.
LEMMA WritingKeeps ==
    ASSUME ResolverInv, NEW known, Consistent(known),
           DOMAIN resolution \subseteq DOMAIN known.resolution,
           NEW e, Shaped(DOMAIN known.resolution, e),
           e.op \notin {"source", "constant", "unreachable"}, WriteOver(known, e)
    PROVE  ResolverInv'
<1> DEFINE next == Resolve(known, e)
<1>1. /\ written' = Append(written, e) /\ family' = family
      /\ resolution' = next.resolution /\ meaning' = next.meaning
  BY DEF WriteOver
<1>2. family \in Families /\ written \in Seq(DOMAIN resolution) /\ Leaves \subseteq DOMAIN resolution
  BY DEF ResolverInv
<1>3. Consistent(next) /\ DOMAIN next.resolution = DOMAIN known.resolution \cup {e}
  BY <1>2, ResolveKeeps
<1> HIDE DEF next
<1>4. Consistent(Known)'
  BY <1>1, <1>3, ConsistentLater
<1>5. DOMAIN resolution \subseteq DOMAIN resolution' /\ e \in DOMAIN resolution'
  BY <1>1, <1>3
<1>6. written' \in Seq(DOMAIN resolution')
  BY <1>1, <1>2, <1>5
<1>7. Leaves' = Leaves
  BY <1>1 DEF Leaves, SourceOf
<1> QED
  BY <1>1, <1>2, <1>4, <1>5, <1>6, <1>7 DEF ResolverInv

\* What a value may be written over: it is in the table, and an integer of some width.
LEMMA OperandsAreKnown ==
    ASSUME ResolverInv, NEW a \in Operands
    PROVE  a \in DOMAIN resolution /\ a.width \in 1 .. I64
<1>1. a \in DOMAIN resolution
  BY DEF ResolverInv, Operands
<1>2. a \in DOMAIN meaning
  BY <1>1 DEF ResolverInv, Consistent, Known
<1>3. Meant(meaning)
  BY DEF ResolverInv, Consistent, Known
<1>4. Shaped(DOMAIN meaning, a)
  BY <1>2, <1>3 DEF Meant
<1> QED
  BY <1>1, <1>4 DEF Shaped

\* A value over the present table is written over it.
LEMMA WritingValueKeeps ==
    ASSUME ResolverInv, NEW e, Shaped(DOMAIN resolution, e),
           e.op \notin {"source", "constant", "unreachable"}, WriteValue(e)
    PROVE  ResolverInv'
<1>1. Consistent(Known) /\ WriteOver(Known, e)
  BY DEF ResolverInv, WriteValue
<1>2. Known.resolution = resolution
  BY DEF Known
<1> QED
  BY <1>1, <1>2, WritingKeeps

LEMMA WritingComparisonKeeps == ResolverInv /\ WriteComparison => ResolverInv'
<1> SUFFICES ASSUME ResolverInv, NEW operator \in family.comparisons,
                    NEW a \in Operands, NEW b \in Operands,
                    a.width = b.width, WriteValue(CompareValue(operator, a, b))
             PROVE  ResolverInv'
  BY DEF WriteComparison
<1> DEFINE e == CompareValue(operator, a, b)
<1>1. a \in DOMAIN resolution /\ b \in DOMAIN resolution
  BY OperandsAreKnown
<1>2. operator \in Comparisons
  BY FamiliesAssumption DEF ResolverInv
<1>3. /\ e.op = "compare" /\ e.operator = operator /\ e.value = 0 /\ e.width = 1
      /\ e.inputs = <<a, b>>
      /\ e = Expression(e.op, e.operator, e.value, e.width, e.inputs)
  BY DEF CompareValue, Expression
<1> HIDE DEF e
<1>4. Shaped(DOMAIN resolution, e)
  BY <1>1, <1>2, <1>3, WidthFacts DEF Shaped
<1>5. WriteValue(e)
  BY DEF e
<1> QED
  BY <1>3, <1>4, <1>5, WritingValueKeeps

LEMMA WritingZeroTestKeeps == ResolverInv /\ WriteZeroTest => ResolverInv'
<1> SUFFICES ASSUME ResolverInv, NEW operator \in family.zeroTests, NEW a \in Operands,
                    WriteValue(ZeroTestValue(operator, a))
             PROVE  ResolverInv'
  BY DEF WriteZeroTest
<1> DEFINE e == ZeroTestValue(operator, a)
<1>1. a \in DOMAIN resolution
  BY OperandsAreKnown
<1>2. operator \in ZeroTests
  BY FamiliesAssumption DEF ResolverInv
<1>3. /\ e.op = "zeroTest" /\ e.operator = operator /\ e.value = 0 /\ e.width = 1
      /\ e.inputs = <<a>>
      /\ e = Expression(e.op, e.operator, e.value, e.width, e.inputs)
  BY DEF ZeroTestValue, Expression
<1> HIDE DEF e
<1>4. Shaped(DOMAIN resolution, e)
  BY <1>1, <1>2, <1>3, WidthFacts DEF Shaped
<1>5. WriteValue(e)
  BY DEF e
<1> QED
  BY <1>3, <1>4, <1>5, WritingValueKeeps

LEMMA WritingBitCountKeeps == ResolverInv /\ WriteBitCount => ResolverInv'
<1> SUFFICES ASSUME ResolverInv, NEW operator \in family.bitCounts, NEW a \in Operands,
                    WriteValue(BitCountValue(operator, a))
             PROVE  ResolverInv'
  BY DEF WriteBitCount
<1> DEFINE e == BitCountValue(operator, a)
<1>1. a \in DOMAIN resolution /\ a.width \in 1 .. I64
  BY OperandsAreKnown
<1>2. operator \in BitCounts
  BY FamiliesAssumption DEF ResolverInv
<1>3. /\ e.op = "bitCount" /\ e.operator = operator /\ e.value = 0 /\ e.width = a.width
      /\ e.inputs = <<a>>
      /\ e = Expression(e.op, e.operator, e.value, e.width, e.inputs)
  BY DEF BitCountValue, Expression
<1> HIDE DEF e
<1>4. Shaped(DOMAIN resolution, e)
  BY <1>1, <1>2, <1>3 DEF Shaped
<1>5. WriteValue(e)
  BY DEF e
<1> QED
  BY <1>3, <1>4, <1>5, WritingValueKeeps

LEMMA WritingExtensionKeeps == ResolverInv /\ WriteExtension => ResolverInv'
<1> SUFFICES ASSUME ResolverInv, NEW operator \in family.extensions, NEW a \in Operands,
                    NEW width \in family.widths, a.width < width,
                    WriteValue(ExtendValue(a, operator, width))
             PROVE  ResolverInv'
  BY DEF WriteExtension
<1> DEFINE e == ExtendValue(a, operator, width)
<1>1. a \in DOMAIN resolution /\ a.width \in 1 .. I64
  BY OperandsAreKnown
<1>2. width \in 1 .. I64
  <2>1. width \in Widths
    BY FamiliesAssumption DEF ResolverInv
  <2> QED
    BY <2>1, WidthFacts DEF Widths
<1>3. width # a.width
  BY <1>1, <1>2
<1>4. /\ e.op = "extend" /\ e.operator = operator /\ e.value = 0 /\ e.width = width
      /\ e.inputs = <<a>>
      /\ e = Expression(e.op, e.operator, e.value, e.width, e.inputs)
  BY <1>3 DEF ExtendValue, Expression
<1> HIDE DEF e
<1>5. Shaped(DOMAIN resolution, e)
  BY <1>1, <1>2, <1>4 DEF Shaped
<1>6. WriteValue(e)
  BY DEF e
<1> QED
  BY <1>4, <1>5, <1>6, WritingValueKeeps

LEMMA WritingTruncationKeeps == ResolverInv /\ WriteTruncation => ResolverInv'
<1> SUFFICES ASSUME ResolverInv, NEW a \in Operands, NEW width \in family.widths,
                    width < a.width, WriteValue(TruncateValue(a, width))
             PROVE  ResolverInv'
  BY DEF WriteTruncation
<1> DEFINE e == TruncateValue(a, width)
<1>1. a \in DOMAIN resolution /\ a.width \in 1 .. I64
  BY OperandsAreKnown
<1>2. width \in 1 .. I64
  <2>1. width \in Widths
    BY FamiliesAssumption DEF ResolverInv
  <2> QED
    BY <2>1, WidthFacts DEF Widths
<1>3. width # a.width
  BY <1>1, <1>2
<1>4. /\ e.op = "truncate" /\ e.operator = "none" /\ e.value = 0 /\ e.width = width
      /\ e.inputs = <<a>>
      /\ e = Expression(e.op, e.operator, e.value, e.width, e.inputs)
  BY <1>3 DEF TruncateValue, Expression
<1> HIDE DEF e
<1>5. Shaped(DOMAIN resolution, e)
  BY <1>1, <1>2, <1>4 DEF Shaped
<1>6. WriteValue(e)
  BY DEF e
<1> QED
  BY <1>4, <1>5, <1>6, WritingValueKeeps

LEMMA WritingSelectKeeps == ResolverInv /\ WriteSelect => ResolverInv'
<1> SUFFICES ASSUME ResolverInv, NEW condition \in Operands, NEW a \in Operands, NEW b \in Operands,
                    condition.width = 1, a.width = b.width,
                    WriteValue(SelectValue(condition, a, b))
             PROVE  ResolverInv'
  BY DEF WriteSelect
<1> DEFINE e == SelectValue(condition, a, b)
<1>1. /\ condition \in DOMAIN resolution /\ a \in DOMAIN resolution /\ b \in DOMAIN resolution
      /\ a.width \in 1 .. I64
  BY OperandsAreKnown
<1>2. /\ e.op = "select" /\ e.operator = "none" /\ e.value = 0 /\ e.width = a.width
      /\ e.inputs = <<condition, a, b>>
      /\ e = Expression(e.op, e.operator, e.value, e.width, e.inputs)
  BY DEF SelectValue, Expression
<1> HIDE DEF e
<1>3. Shaped(DOMAIN resolution, e)
  BY <1>1, <1>2 DEF Shaped
<1>4. WriteValue(e)
  BY DEF e
<1> QED
  BY <1>2, <1>3, <1>4, WritingValueKeeps

\* The count of a shift, a byte or a word, is resolved as a word before the shift.
LEMMA WritingBinaryKeeps == ResolverInv /\ WriteBinary => ResolverInv'
<1> SUFFICES ASSUME ResolverInv, NEW operator \in family.binary,
                    NEW a \in Operands, NEW b \in Operands,
                    IF operator \in Shifts \cup Rotates THEN b.width <= I32 ELSE b.width = a.width,
                    WriteOver(Resolve(Known, BinaryValue(operator, a, b).inputs[2]),
                              BinaryValue(operator, a, b))
             PROVE  ResolverInv'
  BY DEF WriteBinary
<1> DEFINE e == BinaryValue(operator, a, b)
           count == IF operator \in Shifts \cup Rotates THEN ShiftCountValue(b) ELSE b
           known == Resolve(Known, count)
<1>1. /\ a \in DOMAIN resolution /\ b \in DOMAIN resolution
      /\ a.width \in 1 .. I64 /\ b.width \in 1 .. I64
  BY OperandsAreKnown
<1>2. operator \in BinaryOperators
  BY FamiliesAssumption DEF ResolverInv
<1>3. /\ e.op = "binary" /\ e.operator = operator /\ e.value = 0 /\ e.width = a.width
      /\ e.inputs = <<a, count>>
      /\ e = Expression(e.op, e.operator, e.value, e.width, e.inputs)
  BY DEF BinaryValue, Expression
<1>4. /\ count.width = CountWidth(operator, a.width)
      /\ \/ count \in DOMAIN resolution
         \/ Shaped(DOMAIN resolution, count) /\ count.op \notin {"source", "constant", "unreachable"}
  <2>1. CASE count = b
    <3>1. count.width = CountWidth(operator, a.width)
      BY <2>1 DEF CountWidth, ShiftCountValue, ExtendValue, Expression
    <3> QED
      BY <1>1, <2>1, <3>1
  <2>2. CASE count # b
    <3>1. /\ operator \in Shifts \cup Rotates /\ b.width # I32
          /\ count = Expression("extend", "unsigned", 0, I32, <<b>>)
      BY <2>2 DEF ShiftCountValue, ExtendValue
    <3>2. /\ count.op = "extend" /\ count.operator = "unsigned" /\ count.value = 0
          /\ count.width = I32 /\ count.inputs = <<b>>
          /\ count = Expression(count.op, count.operator, count.value, count.width, count.inputs)
      BY <3>1 DEF Expression
    <3> HIDE DEF count
    <3> QED
      BY <1>1, <3>1, <3>2, WidthFacts DEF Shaped, CountWidth
  <2> QED
    BY <2>1, <2>2
<1> HIDE DEF count, e
<1>5. family \in Families /\ Consistent(Known) /\ Known.resolution = resolution
  BY DEF ResolverInv, Known
<1>6. Consistent(known) /\ DOMAIN known.resolution = DOMAIN resolution \cup {count}
  BY <1>4, <1>5, ResolveKeeps
<1>7. WriteOver(known, e)
  <2>1. e.inputs[2] = count
    BY <1>3
  <2> QED
    BY <2>1 DEF e
<1> HIDE DEF known
<1>8. Shaped(DOMAIN known.resolution, e)
  BY <1>1, <1>2, <1>3, <1>4, <1>6 DEF Shaped
<1> QED
  BY <1>3, <1>6, <1>7, <1>8, WritingKeeps

LEMMA ResolverInvKept == ResolverInv /\ [ResolverNext]_resolverVars => ResolverInv'
<1>1. ResolverInv /\ UNCHANGED resolverVars => ResolverInv'
  <2> SUFFICES ASSUME ResolverInv, UNCHANGED resolverVars
               PROVE  ResolverInv'
    OBVIOUS
  <2>1. /\ family' = family /\ written' = written
        /\ resolution' = Known.resolution /\ meaning' = Known.meaning
        /\ resolution' = resolution
    BY DEF resolverVars, Known
  <2>2. Leaves' = Leaves
    BY <2>1 DEF Leaves, SourceOf
  <2>3. Consistent(Known)'
    <3>1. Consistent(Known)
      BY DEF ResolverInv
    <3> QED
      BY <2>1, <3>1, ConsistentLater
  <2> QED
    BY <2>1, <2>2, <2>3 DEF ResolverInv
<1> QED
  BY <1>1, WritingBinaryKeeps, WritingComparisonKeeps, WritingZeroTestKeeps, WritingBitCountKeeps,
     WritingExtensionKeeps, WritingTruncationKeeps, WritingSelectKeeps DEF ResolverNext

\* A value that is folded, or replaced by an operand, is what it was written to
\* be wherever that is defined (simplify.ts, evaluate.ts, resolver.ts): for every
\* family of sources and operators, all widths, and any number of values written.
THEOREM SimplifyingKeepsValues == ResolverSpec => []SimplificationKeepsValue
<1>1. ResolverInv => SimplificationKeepsValue
  BY DEF ResolverInv, Consistent, Known, SimplificationKeepsValue
<1> QED
  BY <1>1, ResolverInitOK, ResolverInvKept, PTL DEF ResolverSpec

=============================================================================
