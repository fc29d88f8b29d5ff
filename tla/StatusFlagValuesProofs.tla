----------------------- MODULE StatusFlagValuesProofs -----------------------
(***************************************************************************)
(* Proofs about StatusFlagValues for every operand of every width, 32 bits *)
(* included, whose numbers TLC cannot hold: the flags of additions and     *)
(* subtractions are those of unbounded arithmetic, the comparisons that    *)
(* stand for conditions on them compare what the conditions test, and a    *)
(* shift or rotation by n is n shifts or rotations by one.                 *)
(***************************************************************************)
EXTENDS StatusFlagValues, ModularArithmetic

\* The numbers of w bits.
Word(w) == 0 .. 2^w - 1

\* Powers of two at the widths of the code.
LEMMA WidthSizes ==
    ASSUME NEW w \in {8, 16, 32}
    PROVE  /\ 2^w \in Nat /\ 2^(w - 1) \in Nat /\ 2^(w - 5) \in Nat
           /\ 2^w = 2 * 2^(w - 1) /\ 2^w = 32 * 2^(w - 5) /\ 2^(w - 1) >= 128
<1>1. CASE w = 8
  <2>1. 2^8 = 256 /\ 2^7 = 128 /\ 2^3 = 8
    OBVIOUS
  <2>2. w - 1 = 7 /\ w - 5 = 3
    BY <1>1
  <2> QED
    BY <1>1, <2>1, <2>2
<1>2. CASE w = 16
  <2>1. 2^16 = 65536 /\ 2^15 = 32768 /\ 2^11 = 2048
    OBVIOUS
  <2>2. w - 1 = 15 /\ w - 5 = 11
    BY <1>2
  <2> QED
    BY <1>2, <2>1, <2>2
<1>3. CASE w = 32
  <2>1. 2^32 = 4294967296 /\ 2^31 = 2147483648 /\ 2^27 = 134217728
    OBVIOUS
  <2>2. w - 1 = 31 /\ w - 5 = 27
    BY <1>3
  <2> QED
    BY <1>3, <2>1, <2>2
<1> QED
  BY <1>1, <1>2, <1>3

\* The top bit is the sign.
LEMMA MsbIsSign ==
    ASSUME NEW w \in {8, 16, 32}, NEW x \in Word(w)
    PROVE  /\ Msb(w, x) = (x >= 2^(w - 1))
           /\ Msb(w, x) = (Signed(w, x) < 0)
<1> DEFINE H == 2^(w - 1)
           M == 2^w
<1>1. H \in Nat /\ M = 2 * H /\ H >= 128
  BY WidthSizes
<1>2. ShiftAmount(w, w - 1) = w - 1 /\ ~(w - 1 >= w)
  BY DEF ShiftAmount
<1>3. Msb(w, x) = ((x \div H) % 2 = 1)
  BY <1>2 DEF Msb, BitAt, Shr
<1>4. x \in Int /\ 0 <= x /\ x < M
  BY <1>1 DEF Word
<1>5. Signed(w, x) = IF x < H THEN x ELSE x - M
  BY DEF Signed
<1> HIDE DEF H, M
<1>6. x \div H = IF x < H THEN 0 ELSE 1
  <2>1. /\ x \div H \in Int /\ x % H \in 0 .. H - 1
        /\ x = H * (x \div H) + (x % H)
    BY <1>1, <1>4
  <2>2. PICK d \in Int, n \in 0 .. H - 1 : d = x \div H /\ x = H * d + n
    BY <2>1
  <2>3. ~(d >= 2)
    <3> SUFFICES ASSUME d >= 2
                 PROVE  FALSE
      OBVIOUS
    <3>1. H * (d - 2) >= 0 /\ H * (d - 2) = H * d - 2 * H
      BY <1>1
    <3> QED
      BY <1>1, <1>4, <2>2, <3>1
  <2>4. ~(d < 0)
    <3> SUFFICES ASSUME d < 0
                 PROVE  FALSE
      OBVIOUS
    <3>1. H * (-1 - d) >= 0 /\ H * (-1 - d) = - H - H * d
      BY <1>1
    <3> QED
      BY <1>1, <1>4, <2>2, <3>1
  <2>5. d = 0 \/ d = 1
    BY <2>3, <2>4
  <2> QED
    BY <1>1, <1>4, <2>2, <2>5
<1>7. Msb(w, x) = (x >= H)
  BY <1>1, <1>3, <1>4, <1>6
<1>8. (x >= H) <=> (Signed(w, x) < 0)
  BY <1>1, <1>4, <1>5
<1>9. Msb(w, x) = (Signed(w, x) < 0)
  BY <1>7, <1>8
<1> QED
  BY <1>7, <1>9 DEF H, M

\* The bit auxCarry looks at.
LEMMA FourthBit ==
    ASSUME NEW w \in {8, 16, 32}, NEW x \in Word(w)
    PROVE  BitAt(w, x, 4) = ((x \div 16) % 2 = 1)
<1>1. ShiftAmount(w, 4) = 4 /\ ~(4 >= w) /\ 2^4 = 16
  BY DEF ShiftAmount
<1> QED
  BY <1>1 DEF BitAt, Shr

-----------------------------------------------------------------------------
\* The carry and the borrow between nibbles, from the bits above them.
AboveNibble(x) == (x \div 16) % 2 = 1

NibblesDiffer(l, r, y) ==
    (AboveNibble(l) <=> AboveNibble(r)) <=> AboveNibble(y)

SameLowBits(x, y) == x % 32 = y % 32

LEMMA NibbleCarry ==
    ASSUME NEW l \in Nat, NEW r \in Nat, NEW c \in {0, 1},
           NEW y \in Int, SameLowBits(y, l + r + c)
    PROVE  NibblesDiffer(l, r, y) <=> LowNibble(l) + LowNibble(r) + c \notin 0 .. 15
<1>1. PICK a \in Int, m \in 0 .. 15 : l = 16 * a + m /\ a = l \div 16 /\ m = l % 16
  OBVIOUS
<1>2. PICK b \in Int, n \in 0 .. 15 : r = 16 * b + n /\ b = r \div 16 /\ n = r % 16
  OBVIOUS
<1>3. PICK d \in Int, o \in 0 .. 15 : y = 16 * d + o /\ d = y \div 16
  OBVIOUS
<1>4. PICK k \in Int : y = l + r + c - 32 * k
  <2>1. PICK i \in Int, j \in Int, n2 \in 0 .. 31 : y = 32 * i + n2 /\ l + r + c = 32 * j + n2
    BY DEF SameLowBits
  <2>2. y = l + r + c - 32 * (j - i) /\ j - i \in Int
    BY <2>1
  <2> QED
    BY <2>2
<1>5. d = a + b - 2 * k + (IF m + n + c > 15 THEN 1 ELSE 0)
  BY <1>1, <1>2, <1>3, <1>4
<1>6. (d % 2 = 1) <=> ((a % 2 = 1 <=> b % 2 = 1) <=> m + n + c > 15)
  BY <1>5
<1> QED
  BY <1>1, <1>2, <1>3, <1>6 DEF LowNibble, NibblesDiffer, AboveNibble

LEMMA NibbleBorrow ==
    ASSUME NEW l \in Nat, NEW r \in Nat, NEW c \in {0, 1},
           NEW y \in Int, SameLowBits(y, l - r - c)
    PROVE  NibblesDiffer(l, r, y) <=> LowNibble(l) - LowNibble(r) - c \notin 0 .. 15
<1>1. PICK a \in Int, m \in 0 .. 15 : l = 16 * a + m /\ a = l \div 16 /\ m = l % 16
  OBVIOUS
<1>2. PICK b \in Int, n \in 0 .. 15 : r = 16 * b + n /\ b = r \div 16 /\ n = r % 16
  OBVIOUS
<1>3. PICK d \in Int, o \in 0 .. 15 : y = 16 * d + o /\ d = y \div 16
  OBVIOUS
<1>4. PICK k \in Int : y = l - r - c + 32 * k
  <2>1. PICK i \in Int, j \in Int, n2 \in 0 .. 31 : y = 32 * i + n2 /\ l - r - c = 32 * j + n2
    BY DEF SameLowBits
  <2>2. y = l - r - c + 32 * (i - j) /\ i - j \in Int
    BY <2>1
  <2> QED
    BY <2>2
<1>5. d = a - b + 2 * k - (IF m < n + c THEN 1 ELSE 0)
  BY <1>1, <1>2, <1>3, <1>4
<1>6. (d % 2 = 1) <=> ((a % 2 = 1 <=> b % 2 = 1) <=> m < n + c)
  BY <1>5
<1> QED
  BY <1>1, <1>2, <1>3, <1>6 DEF LowNibble, NibblesDiffer, AboveNibble

\* The results of the model, by name.
IsSum(w, l, r, carry, y) == y = Wrap(w, Wrap(w, l + r) + Bit(carry))
IsDifference(w, l, r, borrow, y) == y = Wrap(w, Wrap(w, l - r) - Bit(borrow))
IsWrapped(w, x, y) == y = Wrap(w, x)

\* The formulas for the flags are Boolean whatever they are about.
LEMMA FlagsAreBoolean ==
    ASSUME NEW w, NEW l, NEW r, NEW y
    PROVE  /\ AuxCarry(w, l, r, y) \in BOOLEAN
           /\ AddOverflow(w, l, r, y) \in BOOLEAN /\ SubOverflow(w, l, r, y) \in BOOLEAN
<1>1. AuxCarry(w, l, r, y) \in BOOLEAN
  BY Zenon DEF AuxCarry
<1>2. AddOverflow(w, l, r, y) \in BOOLEAN
  BY Zenon DEF AddOverflow
<1>3. SubOverflow(w, l, r, y) \in BOOLEAN
  BY Zenon DEF SubOverflow
<1> QED
  BY <1>1, <1>2, <1>3

\* The flags of a sum, with a carry or without, against the unbounded sum x.
LEMMA SumFlags ==
    ASSUME NEW w \in {8, 16, 32}, NEW l \in Word(w), NEW r \in Word(w),
           NEW carry \in BOOLEAN, NEW y, IsSum(w, l, r, carry, y)
    PROVE  /\ y \in Word(w) /\ y = Wrap(w, l + r + Bit(carry))
           /\ AddCarry(l, y, carry) = (l + r + Bit(carry) \notin Word(w))
           /\ AuxCarry(w, l, r, y)
                 = (LowNibble(l) + LowNibble(r) + Bit(carry) \notin 0 .. 15)
           /\ AddOverflow(w, l, r, y)
                 = (Signed(w, l) + Signed(w, r) + Bit(carry)
                        \notin - MinSigned(w) .. MaxSigned(w))
<1> DEFINE M == 2^w
           H == 2^(w - 1)
           K == 2^(w - 5)
           c == Bit(carry)
           x == l + r + c
<1>1. /\ M \in Nat /\ H \in Nat /\ K \in Nat /\ M = 2 * H /\ M = 32 * K /\ H >= 128
      /\ M > 0
  <2>1. /\ 2^w \in Nat /\ 2^(w - 1) \in Nat /\ 2^(w - 5) \in Nat
        /\ 2^w = 2 * 2^(w - 1) /\ 2^w = 32 * 2^(w - 5) /\ 2^(w - 1) >= 128
    BY WidthSizes
  <2> HIDE DEF M, H, K
  <2> QED
    BY <2>1 DEF M, H, K
<1>2. c \in {0, 1} /\ (carry <=> c = 1)
  BY DEF Bit
<1>3. l \in Int /\ 0 <= l /\ l < M /\ r \in Int /\ 0 <= r /\ r < M /\ x = l + r + c
  BY <1>1 DEF Word
<1>4. y = (((l + r) % M) + c) % M
  BY DEF Wrap, IsSum
<1>5. MinSigned(w) = H /\ MaxSigned(w) = H - 1 /\ Wrap(w, x) = x % M
  BY DEF MinSigned, MaxSigned, Wrap
<1>6. /\ Signed(w, l) = IF l < H THEN l ELSE l - M
      /\ Signed(w, r) = IF r < H THEN r ELSE r - M
  BY DEF Signed
<1>7. Msb(w, l) = (l >= H) /\ Msb(w, r) = (r >= H)
  BY MsbIsSign
<1> HIDE DEF M, H, K, c, x
<1>8. y \in 0 .. M - 1 /\ y = IF x < M THEN x ELSE x - M
  <2>1. (l + r) % M = IF l + r < M THEN l + r ELSE l + r - M
    <3>1. l \in 0 .. M - 1 /\ r \in 0 .. M - 1
      BY <1>1, <1>3
    <3> QED
      BY <1>1, <3>1, SumWraps
  <2>2. (l + r) % M \in 0 .. M - 1 /\ c \in 0 .. M - 1
    BY <1>1, <1>2, <1>3, <2>1
  <2>3. y = IF ((l + r) % M) + c < M THEN ((l + r) % M) + c ELSE ((l + r) % M) + c - M
    BY <1>1, <1>4, <2>2, SumWraps
  <2> QED
    BY <1>1, <1>2, <1>3, <2>1, <2>3
<1>9. y = x % M
  <2>1. CASE x < M
    <3>1. x = 0 * M + x /\ x \in 0 .. M - 1 /\ x \in Int
      BY <1>1, <1>2, <1>3, <2>1
    <3>2. x % M = x
      BY <1>1, <3>1, UniqueRemainder
    <3> QED
      BY <1>8, <2>1, <3>2
  <2>2. CASE ~(x < M)
    <3>1. x = 1 * M + (x - M) /\ x - M \in 0 .. M - 1 /\ x \in Int
      BY <1>1, <1>2, <1>3, <2>2
    <3>2. x % M = x - M
      BY <1>1, <3>1, UniqueRemainder
    <3> QED
      BY <1>8, <2>2, <3>2
  <2> QED
    BY <2>1, <2>2
<1>10. AddCarry(l, y, carry) = (x \notin 0 .. M - 1)
  BY <1>1, <1>2, <1>3, <1>8 DEF AddCarry
<1>11. y \in Word(w)
  BY <1>8 DEF M, Word
<1>12. AuxCarry(w, l, r, y) <=> LowNibble(l) + LowNibble(r) + c \notin 0 .. 15
  <2>1. /\ BitAt(w, l, 4) = ((l \div 16) % 2 = 1)
        /\ BitAt(w, r, 4) = ((r \div 16) % 2 = 1)
        /\ BitAt(w, y, 4) = ((y \div 16) % 2 = 1)
    BY <1>11, FourthBit
  <2>2. SameLowBits(y, l + r + c)
    BY <1>1, <1>2, <1>3, <1>8 DEF SameLowBits
  <2>3. l \in Nat /\ r \in Nat /\ y \in Int
    BY <1>1, <1>3, <1>8
  <2>4. NibblesDiffer(l, r, y) <=> LowNibble(l) + LowNibble(r) + c \notin 0 .. 15
    BY <1>2, <2>2, <2>3, NibbleCarry
  <2> QED
    BY <2>1, <2>4 DEF AuxCarry, NibblesDiffer, AboveNibble
<1>13. AddOverflow(w, l, r, y)
          <=> Signed(w, l) + Signed(w, r) + c \notin - MinSigned(w) .. MaxSigned(w)
  <2>1. Msb(w, y) = (y >= H)
    BY <1>11, MsbIsSign DEF H
  <2>2. Signed(w, l) + Signed(w, r) + c \in - H .. H - 1
           <=> /\ - H <= Signed(w, l) + Signed(w, r) + c
               /\ Signed(w, l) + Signed(w, r) + c <= H - 1
    BY <1>1, <1>2, <1>3, <1>6
  <2> QED
    BY <1>1, <1>2, <1>3, <1>5, <1>6, <1>7, <1>8, <2>1, <2>2 DEF AddOverflow
<1> QED
  BY <1>5, <1>9, <1>10, <1>11, <1>12, <1>13, FlagsAreBoolean DEF M, c, x, Word

\* The flags of a difference, with a borrow or without, and the order it shows.
LEMMA DifferenceFlags ==
    ASSUME NEW w \in {8, 16, 32}, NEW l \in Word(w), NEW r \in Word(w),
           NEW borrow \in BOOLEAN, NEW y, IsDifference(w, l, r, borrow, y)
    PROVE  /\ y \in Word(w) /\ y = Wrap(w, l - r - Bit(borrow))
           /\ SubBorrow(l, r, borrow) = (l - r - Bit(borrow) \notin Word(w))
           /\ AuxCarry(w, l, r, y)
                 = (LowNibble(l) - LowNibble(r) - Bit(borrow) \notin 0 .. 15)
           /\ SubOverflow(w, l, r, y)
                 = (Signed(w, l) - Signed(w, r) - Bit(borrow)
                        \notin - MinSigned(w) .. MaxSigned(w))
           /\ ~borrow => /\ y = 0 <=> l = r
                         /\ Msb(w, y) = SubOverflow(w, l, r, y)
                               <=> Signed(w, l) >= Signed(w, r)
<1> DEFINE M == 2^w
           H == 2^(w - 1)
           K == 2^(w - 5)
           c == Bit(borrow)
           x == l - r - c
<1>1. /\ M \in Nat /\ H \in Nat /\ K \in Nat /\ M = 2 * H /\ M = 32 * K /\ H >= 128
      /\ M > 0
  <2>1. /\ 2^w \in Nat /\ 2^(w - 1) \in Nat /\ 2^(w - 5) \in Nat
        /\ 2^w = 2 * 2^(w - 1) /\ 2^w = 32 * 2^(w - 5) /\ 2^(w - 1) >= 128
    BY WidthSizes
  <2> HIDE DEF M, H, K
  <2> QED
    BY <2>1 DEF M, H, K
<1>2. c \in {0, 1} /\ (borrow <=> c = 1)
  BY DEF Bit
<1>3. l \in Int /\ 0 <= l /\ l < M /\ r \in Int /\ 0 <= r /\ r < M /\ x = l - r - c
  BY <1>1 DEF Word
<1>4. y = (((l - r) % M) - c) % M
  BY DEF Wrap, IsDifference
<1>5. MinSigned(w) = H /\ MaxSigned(w) = H - 1 /\ Wrap(w, x) = x % M
  BY DEF MinSigned, MaxSigned, Wrap
<1>6. /\ Signed(w, l) = IF l < H THEN l ELSE l - M
      /\ Signed(w, r) = IF r < H THEN r ELSE r - M
  BY DEF Signed
<1>7. Msb(w, l) = (l >= H) /\ Msb(w, r) = (r >= H)
  BY MsbIsSign
<1> HIDE DEF M, H, K, c, x
<1>8. y \in 0 .. M - 1 /\ y = IF x >= 0 THEN x ELSE x + M
  <2>1. (l - r) % M = IF l >= r THEN l - r ELSE l - r + M
    <3>1. l \in 0 .. M - 1 /\ r \in 0 .. M - 1
      BY <1>1, <1>3
    <3> QED
      BY <1>1, <3>1, DifferenceBorrows
  <2>2. (l - r) % M \in 0 .. M - 1 /\ c \in 0 .. M - 1
    BY <1>1, <1>2, <1>3, <2>1
  <2>3. y = IF ((l - r) % M) >= c THEN ((l - r) % M) - c ELSE ((l - r) % M) - c + M
    BY <1>1, <1>4, <2>2, DifferenceBorrows
  <2> QED
    BY <1>1, <1>2, <1>3, <2>1, <2>3
<1>9. y = x % M
  <2>1. CASE x >= 0
    <3>1. x = 0 * M + x /\ x \in 0 .. M - 1 /\ x \in Int
      BY <1>1, <1>2, <1>3, <2>1
    <3>2. x % M = x
      BY <1>1, <3>1, UniqueRemainder
    <3> QED
      BY <1>8, <2>1, <3>2
  <2>2. CASE ~(x >= 0)
    <3>1. x = (-1) * M + (x + M) /\ x + M \in 0 .. M - 1 /\ x \in Int
      BY <1>1, <1>2, <1>3, <2>2
    <3>2. x % M = x + M
      BY <1>1, <3>1, UniqueRemainder
    <3> QED
      BY <1>8, <2>2, <3>2
  <2> QED
    BY <2>1, <2>2
<1>10. SubBorrow(l, r, borrow) = (x \notin 0 .. M - 1)
  BY <1>1, <1>2, <1>3 DEF SubBorrow
<1>11. y \in Word(w)
  BY <1>8 DEF M, Word
<1>12. AuxCarry(w, l, r, y) <=> LowNibble(l) - LowNibble(r) - c \notin 0 .. 15
  <2>1. /\ BitAt(w, l, 4) = ((l \div 16) % 2 = 1)
        /\ BitAt(w, r, 4) = ((r \div 16) % 2 = 1)
        /\ BitAt(w, y, 4) = ((y \div 16) % 2 = 1)
    BY <1>11, FourthBit
  <2>2. SameLowBits(y, l - r - c)
    BY <1>1, <1>2, <1>3, <1>8 DEF SameLowBits
  <2>3. l \in Nat /\ r \in Nat /\ y \in Int
    BY <1>1, <1>3, <1>8
  <2>4. NibblesDiffer(l, r, y) <=> LowNibble(l) - LowNibble(r) - c \notin 0 .. 15
    BY <1>2, <2>2, <2>3, NibbleBorrow
  <2> QED
    BY <2>1, <2>4 DEF AuxCarry, NibblesDiffer, AboveNibble
<1>13. Msb(w, y) = (y >= H)
  BY <1>11, MsbIsSign DEF H
<1>14. SubOverflow(w, l, r, y)
          <=> Signed(w, l) - Signed(w, r) - c \notin - MinSigned(w) .. MaxSigned(w)
  <2>1. Signed(w, l) - Signed(w, r) - c \in - H .. H - 1
           <=> /\ - H <= Signed(w, l) - Signed(w, r) - c
               /\ Signed(w, l) - Signed(w, r) - c <= H - 1
    BY <1>1, <1>2, <1>3, <1>6
  <2> QED
    BY <1>1, <1>2, <1>3, <1>5, <1>6, <1>7, <1>8, <1>13, <2>1 DEF SubOverflow
<1>15. ASSUME ~borrow
       PROVE  /\ y = 0 <=> l = r
              /\ Msb(w, y) = SubOverflow(w, l, r, y) <=> Signed(w, l) >= Signed(w, r)
  <2>1. y = IF l >= r THEN l - r ELSE l - r + M
    BY <1>2, <1>3, <1>8, <1>15
  <2>2. y = 0 <=> l = r
    BY <1>1, <1>3, <2>1
  <2>3. SubOverflow(w, l, r, y) \in BOOLEAN /\ Msb(w, y) \in BOOLEAN
    <3>1. SubOverflow(w, l, r, y) \in BOOLEAN
      BY Zenon DEF SubOverflow
    <3>2. Msb(w, y) \in BOOLEAN
      BY Zenon DEF Msb, BitAt
    <3> QED
      BY <3>1, <3>2
  <2>4. SubOverflow(w, l, r, y) <=> ((l >= H) # (r >= H)) /\ ((l >= H) # (y >= H))
    BY <1>7, <1>13 DEF SubOverflow
  <2>5. ((y >= H) <=> (((l >= H) # (r >= H)) /\ ((l >= H) # (y >= H))))
           <=> Signed(w, l) >= Signed(w, r)
    BY <1>1, <1>3, <1>6, <2>1
  <2>6. (Msb(w, y) <=> y >= H)
    BY <1>13
  <2> QED
    BY <2>2, <2>3, <2>4, <2>5, <2>6
<1> QED
  BY <1>5, <1>9, <1>10, <1>11, <1>12, <1>14, <1>15, FlagsAreBoolean DEF M, c, x, Word

\* inc, dec and neg, whose flags are told from the operand alone.
LEMMA IncFlags ==
    ASSUME NEW w \in {8, 16, 32}, NEW l \in Word(w),
           NEW y, IsWrapped(w, l + 1, y)
    PROVE  /\ y \in Word(w)
           /\ LowNibble(l) = 15 <=> LowNibble(l) + LowNibble(1) \notin 0 .. 15
           /\ l = MaxSigned(w) <=> Signed(w, l) + Signed(w, 1)
                                      \notin - MinSigned(w) .. MaxSigned(w)
<1> DEFINE M == 2^w
           H == 2^(w - 1)
<1>1. M \in Nat /\ H \in Nat /\ M = 2 * H /\ H >= 128
  <2>1. /\ 2^w \in Nat /\ 2^(w - 1) \in Nat
        /\ 2^w = 2 * 2^(w - 1) /\ 2^(w - 1) >= 128
    BY WidthSizes
  <2> HIDE DEF M, H
  <2> QED
    BY <2>1 DEF M, H
<1>2. l \in Int /\ 0 <= l /\ l < M
  BY <1>1 DEF Word
<1>3. y = (l + 1) % M /\ MinSigned(w) = H /\ MaxSigned(w) = H - 1
  BY DEF IsWrapped, Wrap, MinSigned, MaxSigned
<1>4. Signed(w, l) = (IF l < H THEN l ELSE l - M) /\ Signed(w, 1) = IF 1 < H THEN 1 ELSE 1 - M
  BY DEF Signed
<1> HIDE DEF M, H
<1>5. y \in 0 .. M - 1
  BY <1>1, <1>2, <1>3
<1>6. LowNibble(l) \in 0 .. 15 /\ LowNibble(1) = 1
  BY <1>2 DEF LowNibble
<1>7. l = H - 1 <=> Signed(w, l) + Signed(w, 1) \notin - H .. H - 1
  BY <1>1, <1>2, <1>4
<1> QED
  BY <1>3, <1>5, <1>6, <1>7 DEF M, Word

LEMMA DecFlags ==
    ASSUME NEW w \in {8, 16, 32}, NEW l \in Word(w),
           NEW y, IsWrapped(w, l - 1, y)
    PROVE  /\ y \in Word(w)
           /\ LowNibble(l) = 0 <=> LowNibble(l) - LowNibble(1) \notin 0 .. 15
           /\ l = MinSigned(w) <=> Signed(w, l) - Signed(w, 1)
                                      \notin - MinSigned(w) .. MaxSigned(w)
<1> DEFINE M == 2^w
           H == 2^(w - 1)
<1>1. M \in Nat /\ H \in Nat /\ M = 2 * H /\ H >= 128
  <2>1. /\ 2^w \in Nat /\ 2^(w - 1) \in Nat
        /\ 2^w = 2 * 2^(w - 1) /\ 2^(w - 1) >= 128
    BY WidthSizes
  <2> HIDE DEF M, H
  <2> QED
    BY <2>1 DEF M, H
<1>2. l \in Int /\ 0 <= l /\ l < M
  BY <1>1 DEF Word
<1>3. y = (l - 1) % M /\ MinSigned(w) = H /\ MaxSigned(w) = H - 1
  BY DEF IsWrapped, Wrap, MinSigned, MaxSigned
<1>4. Signed(w, l) = (IF l < H THEN l ELSE l - M) /\ Signed(w, 1) = IF 1 < H THEN 1 ELSE 1 - M
  BY DEF Signed
<1> HIDE DEF M, H
<1>5. y \in 0 .. M - 1
  BY <1>1, <1>2, <1>3
<1>6. LowNibble(l) \in 0 .. 15 /\ LowNibble(1) = 1
  BY <1>2 DEF LowNibble
<1>7. l = H <=> Signed(w, l) - Signed(w, 1) \notin - H .. H - 1
  BY <1>1, <1>2, <1>4
<1> QED
  BY <1>3, <1>5, <1>6, <1>7 DEF M, Word

LEMMA NegFlags ==
    ASSUME NEW w \in {8, 16, 32}, NEW l \in Word(w),
           NEW y, IsWrapped(w, - l, y)
    PROVE  /\ y \in Word(w)
           /\ l # 0 <=> 0 - l \notin Word(w)
           /\ LowNibble(l) # 0 <=> LowNibble(0) - LowNibble(l) \notin 0 .. 15
           /\ l = MinSigned(w) <=> Signed(w, 0) - Signed(w, l)
                                      \notin - MinSigned(w) .. MaxSigned(w)
<1> DEFINE M == 2^w
           H == 2^(w - 1)
<1>1. M \in Nat /\ H \in Nat /\ M = 2 * H /\ H >= 128
  <2>1. /\ 2^w \in Nat /\ 2^(w - 1) \in Nat
        /\ 2^w = 2 * 2^(w - 1) /\ 2^(w - 1) >= 128
    BY WidthSizes
  <2> HIDE DEF M, H
  <2> QED
    BY <2>1 DEF M, H
<1>2. l \in Int /\ 0 <= l /\ l < M
  BY <1>1 DEF Word
<1>3. y = (- l) % M /\ MinSigned(w) = H /\ MaxSigned(w) = H - 1
  BY DEF IsWrapped, Wrap, MinSigned, MaxSigned
<1>4. Signed(w, l) = (IF l < H THEN l ELSE l - M) /\ Signed(w, 0) = IF 0 < H THEN 0 ELSE 0 - M
  BY DEF Signed
<1> HIDE DEF M, H
<1>5. y \in 0 .. M - 1
  BY <1>1, <1>2, <1>3
<1>6. LowNibble(l) \in 0 .. 15 /\ LowNibble(0) = 0
  BY <1>2 DEF LowNibble
<1>7. l = H <=> Signed(w, 0) - Signed(w, l) \notin - H .. H - 1
  BY <1>1, <1>2, <1>4
<1>8. l # 0 <=> 0 - l \notin 0 .. M - 1
  BY <1>1, <1>2
<1> QED
  BY <1>3, <1>5, <1>6, <1>7, <1>8 DEF M, Word

-----------------------------------------------------------------------------
\* A flag computed by the instruction hides the one before it.
LEMMA FlagsOverride ==
    ASSUME NEW f, NEW g
    PROVE  /\ DOMAIN Over(f, g) = DOMAIN f \cup DOMAIN g
           /\ \A x \in DOMAIN f : Over(f, g)[x] = f[x]
           /\ \A x \in DOMAIN g \ DOMAIN f : Over(f, g)[x] = g[x]
  BY DEF Over

LEMMA ComputedFlags ==
    ASSUME NEW f, NEW g, NEW old
    PROVE  LET all == Over(Over(f, g), old) IN
           /\ \A x \in DOMAIN f : all[x] = f[x]
           /\ \A x \in DOMAIN g \ DOMAIN f : all[x] = g[x]
           /\ \A x \in DOMAIN old \ (DOMAIN f \cup DOMAIN g) : all[x] = old[x]
<1> DEFINE h == Over(f, g)
<1>1. /\ DOMAIN h = DOMAIN f \cup DOMAIN g
      /\ \A x \in DOMAIN f : h[x] = f[x]
      /\ \A x \in DOMAIN g \ DOMAIN f : h[x] = g[x]
  BY FlagsOverride
<1> HIDE DEF h
<1>2. /\ \A x \in DOMAIN h : Over(h, old)[x] = h[x]
      /\ \A x \in DOMAIN old \ DOMAIN h : Over(h, old)[x] = old[x]
  BY FlagsOverride
<1> QED
  BY <1>1, <1>2 DEF h

\* The fields of the flags after each kind of instruction.
LEMMA ZspFields ==
    ASSUME NEW w, NEW y
    PROVE  /\ DOMAIN ZspValues(w, y) = {"ZF", "SF", "PF"}
           /\ ZspValues(w, y)["ZF"] = (y = 0)
           /\ ZspValues(w, y)["SF"] = Msb(w, y)
  BY DEF ZspValues

LEMMA AddFields ==
    ASSUME NEW w, NEW l, NEW r, NEW y, NEW c, NEW old,
           NEW f, f = Over(AddStatusFlagValues(w, l, r, y, c), old)
    PROVE  /\ f.CF = AddCarry(l, y, c) /\ f.AF = AuxCarry(w, l, r, y)
           /\ f.OF = AddOverflow(w, l, r, y) /\ f.ZF = (y = 0) /\ f.SF = Msb(w, y)
<1> DEFINE own == [CF |-> AddCarry(l, y, c), AF |-> AuxCarry(w, l, r, y),
                   OF |-> AddOverflow(w, l, r, y)]
<1>1. f = Over(Over(own, ZspValues(w, y)), old)
  BY DEF AddStatusFlagValues
<1>2. /\ DOMAIN own = {"CF", "AF", "OF"} /\ own["CF"] = AddCarry(l, y, c)
      /\ own["AF"] = AuxCarry(w, l, r, y) /\ own["OF"] = AddOverflow(w, l, r, y)
  OBVIOUS
<1> HIDE DEF own
<1> QED
  BY <1>1, <1>2, ComputedFlags, ZspFields

LEMMA SubFields ==
    ASSUME NEW w, NEW l, NEW r, NEW y, NEW c, NEW old,
           NEW f, f = Over(SubStatusFlagValues(w, l, r, y, c), old)
    PROVE  /\ f.CF = SubBorrow(l, r, c) /\ f.AF = AuxCarry(w, l, r, y)
           /\ f.OF = SubOverflow(w, l, r, y) /\ f.ZF = (y = 0) /\ f.SF = Msb(w, y)
<1> DEFINE own == [CF |-> SubBorrow(l, r, c), AF |-> AuxCarry(w, l, r, y),
                   OF |-> SubOverflow(w, l, r, y)]
<1>1. f = Over(Over(own, ZspValues(w, y)), old)
  BY DEF SubStatusFlagValues
<1>2. /\ DOMAIN own = {"CF", "AF", "OF"} /\ own["CF"] = SubBorrow(l, r, c)
      /\ own["AF"] = AuxCarry(w, l, r, y) /\ own["OF"] = SubOverflow(w, l, r, y)
  OBVIOUS
<1> HIDE DEF own
<1> QED
  BY <1>1, <1>2, ComputedFlags, ZspFields

LEMMA LogicFields ==
    ASSUME NEW w, NEW y, NEW old, NEW f, f = Over(LogicStatusFlagValues(w, y), old)
    PROVE  f.ZF = (y = 0)
<1> DEFINE own == [CF |-> FALSE, AF |-> FALSE, OF |-> FALSE]
<1>1. f = Over(Over(own, ZspValues(w, y)), old)
  BY DEF LogicStatusFlagValues
<1>2. DOMAIN own = {"CF", "AF", "OF"}
  OBVIOUS
<1> HIDE DEF own
<1> QED
  BY <1>1, <1>2, ComputedFlags, ZspFields

\* inc and dec leave the carry of the flags before them.
LEMMA StepFields ==
    ASSUME NEW w, NEW y, NEW aux, NEW overflow,
           NEW old \in [StatusFlag -> BOOLEAN],
           NEW f, f = Over(Over([AF |-> aux, OF |-> overflow], ZspValues(w, y)), old)
    PROVE  /\ f.CF = old.CF /\ f.AF = aux /\ f.OF = overflow
           /\ f.ZF = (y = 0) /\ f.SF = Msb(w, y)
<1> DEFINE own == [AF |-> aux, OF |-> overflow]
<1>1. DOMAIN own = {"AF", "OF"} /\ own["AF"] = aux /\ own["OF"] = overflow
  OBVIOUS
<1>2. "CF" \in DOMAIN old
  BY DEF StatusFlag
<1>3. f = Over(Over(own, ZspValues(w, y)), old)
  OBVIOUS
<1> HIDE DEF own
<1> QED
  BY <1>1, <1>2, <1>3, ComputedFlags, ZspFields

LEMMA NegFields ==
    ASSUME NEW w, NEW l, NEW y, NEW old,
           NEW f, f = Over(NegStatusFlagValues(w, l, y), old)
    PROVE  /\ f.CF = (l # 0) /\ f.AF = (LowNibble(l) # 0) /\ f.OF = (l = MinSigned(w))
           /\ f.ZF = (y = 0) /\ f.SF = Msb(w, y)
<1> DEFINE own == [CF |-> l # 0, AF |-> LowNibble(l) # 0, OF |-> l = MinSigned(w)]
<1>1. f = Over(Over(own, ZspValues(w, y)), old)
  BY DEF NegStatusFlagValues
<1>2. /\ DOMAIN own = {"CF", "AF", "OF"} /\ own["CF"] = (l # 0)
      /\ own["AF"] = (LowNibble(l) # 0) /\ own["OF"] = (l = MinSigned(w))
  OBVIOUS
<1> HIDE DEF own
<1> QED
  BY <1>1, <1>2, ComputedFlags, ZspFields

-----------------------------------------------------------------------------
(***************************************************************************)
(* The steps.  What is invariant is the type of the task; an instruction   *)
(* is executed once, from it.                                              *)
(***************************************************************************)
TaskOK ==
    /\ task.op \in Op
    /\ task.width \in Width
    /\ task.value \in Operand[task.width]
    /\ task.old \in [StatusFlag -> BOOLEAN]

LEMMA TaskFacts ==
    ASSUME TaskOK
    PROVE  /\ task.width \in {8, 16, 32}
           /\ task.value \in Word(task.width) /\ task.value \in Int
           /\ task.old.CF \in BOOLEAN
           /\ \A right \in Operand[task.width] :
                 right \in Word(task.width) /\ right \in Int
<1>1. task.width \in {8, 16, 32}
  BY WidthAssumption DEF TaskOK
<1>2. 2^task.width \in Nat
  BY <1>1, WidthSizes
<1>3. Operand[task.width] \subseteq Word(task.width)
  BY OperandAssumption DEF TaskOK, Word
<1>4. task.old.CF \in BOOLEAN
  BY DEF TaskOK, StatusFlag
<1> HIDE DEF TaskOK
<1>5. \A x \in Word(task.width) : x \in Int
  BY <1>2 DEF Word
<1>6. task.value \in Operand[task.width]
  BY DEF TaskOK
<1> QED
  BY <1>1, <1>3, <1>4, <1>5, <1>6

LEMMA AddStep ==
    ASSUME TaskOK, NEW right \in Operand[task.width], Add(right)
    PROVE  FlagsAreArithmetic' /\ ConditionsAreComparisons'
<1> DEFINE w == task.width
           l == task.value
           c == task.op = "adc" /\ task.old.CF
           y == Wrap(w, Wrap(w, l + right) + Bit(c))
           f == Over(AddStatusFlagValues(w, l, right, y, c), task.old)
<1>1. /\ task' = task /\ task.op \in {"add", "adc"}
      /\ outcome'.right = right /\ outcome'.result = y /\ outcome'.flags = f
  BY DEF Add, Execute
<1>2. /\ w \in {8, 16, 32} /\ l \in Word(w) /\ right \in Word(w)
      /\ l \in Int /\ right \in Int /\ c \in BOOLEAN
  BY TaskFacts
<1>3. /\ f.CF = AddCarry(l, y, c) /\ f.AF = AuxCarry(w, l, right, y)
      /\ f.OF = AddOverflow(w, l, right, y) /\ f.ZF = (y = 0) /\ f.SF = Msb(w, y)
  BY AddFields
<1>4. IsSum(w, l, right, c, y)
  BY DEF IsSum
<1>5. (Bit(task.op \in {"adc", "sbb"} /\ task.old.CF)) = Bit(c)
  BY <1>1
<1>6. \A a, b : Exact(a, b)' = a + b + Bit(c)
  BY <1>1, <1>5 DEF Exact
<1> HIDE DEF f, y, w, l, c
<1>7. /\ y \in Word(w) /\ y = Wrap(w, l + right + Bit(c))
      /\ AddCarry(l, y, c) = (l + right + Bit(c) \notin Word(w))
      /\ AuxCarry(w, l, right, y)
            = (LowNibble(l) + LowNibble(right) + Bit(c) \notin 0 .. 15)
      /\ AddOverflow(w, l, right, y)
            = (Signed(w, l) + Signed(w, right) + Bit(c)
                   \notin - MinSigned(w) .. MaxSigned(w))
  BY <1>2, <1>4, SumFlags
<1>8. Msb(w, y) = (Signed(w, y) < 0)
  BY <1>2, <1>7, MsbIsSign
<1>9. FlagsAreArithmetic'
  BY <1>1, <1>3, <1>6, <1>7, <1>8
     DEF Word, FlagsAreArithmetic, Executed, w, l
<1>10. ConditionsAreComparisons'
  BY <1>1 DEF ConditionsAreComparisons, Executed
<1> QED
  BY <1>9, <1>10

\* What a comparison needs of the flags to stand for every condition on them.
LEMMA Comparisons ==
    ASSUME NEW w, NEW a \in Int, NEW b \in Int, Signed(w, a) \in Int, Signed(w, b) \in Int,
           NEW f, f.ZF = (a = b), f.CF = (a < b),
           f.SF \in BOOLEAN, f.OF \in BOOLEAN,
           (f.SF = f.OF) <=> Signed(w, a) >= Signed(w, b),
           a = b => Signed(w, a) = Signed(w, b),
           Signed(w, a) = Signed(w, b) => a = b,
           NEW cc \in {"E", "NE", "B", "AE", "BE", "A", "L", "GE", "LE", "G"}
    PROVE  Met(cc, f) = Compare(w, cc, a, b)
<1>1. CASE cc \in {"E", "NE"}
  BY <1>1 DEF Met, Compare
<1>2. CASE cc \in {"B", "AE", "BE", "A"}
  BY <1>2 DEF Met, Compare
<1>3. CASE cc \in {"L", "GE"}
  BY <1>3 DEF Met, Compare
<1>4. CASE cc \in {"LE", "G"}
  BY <1>4 DEF Met, Compare
<1> QED
  BY <1>1, <1>2, <1>3, <1>4

\* Reading a number as signed loses nothing.
LEMMA SignedIsInjective ==
    ASSUME NEW w \in {8, 16, 32}, NEW a \in Word(w), NEW b \in Word(w)
    PROVE  /\ a \in Int /\ b \in Int /\ Signed(w, a) \in Int /\ Signed(w, b) \in Int
           /\ a = b => Signed(w, a) = Signed(w, b)
           /\ Signed(w, a) = Signed(w, b) => a = b
<1> DEFINE M == 2^w
           H == 2^(w - 1)
<1>1. M \in Nat /\ H \in Nat /\ M = 2 * H
  <2>1. 2^w \in Nat /\ 2^(w - 1) \in Nat /\ 2^w = 2 * 2^(w - 1)
    BY WidthSizes
  <2> HIDE DEF M, H
  <2> QED
    BY <2>1 DEF M, H
<1>2. a \in Int /\ 0 <= a /\ a < M /\ b \in Int /\ 0 <= b /\ b < M
  BY <1>1 DEF Word
<1>3. /\ Signed(w, a) = IF a < H THEN a ELSE a - M
      /\ Signed(w, b) = IF b < H THEN b ELSE b - M
  BY DEF Signed
<1> HIDE DEF M, H
<1> QED
  BY <1>1, <1>2, <1>3

LEMMA SubStep ==
    ASSUME TaskOK, NEW right \in Operand[task.width], Sub(right)
    PROVE  FlagsAreArithmetic' /\ ConditionsAreComparisons'
<1> DEFINE w == task.width
           l == task.value
           c == task.op = "sbb" /\ task.old.CF
           y == Wrap(w, Wrap(w, l - right) - Bit(c))
           f == Over(SubStatusFlagValues(w, l, right, y, c), task.old)
<1>1. /\ task' = task /\ task.op \in {"sub", "sbb"}
      /\ outcome'.right = right /\ outcome'.result = y /\ outcome'.flags = f
  BY DEF Sub, Execute
<1>2. /\ w \in {8, 16, 32} /\ l \in Word(w) /\ right \in Word(w)
      /\ l \in Int /\ right \in Int /\ c \in BOOLEAN
  BY TaskFacts
<1>3. /\ f.CF = SubBorrow(l, right, c) /\ f.AF = AuxCarry(w, l, right, y)
      /\ f.OF = SubOverflow(w, l, right, y) /\ f.ZF = (y = 0) /\ f.SF = Msb(w, y)
  BY SubFields
<1>4. IsDifference(w, l, right, c, y)
  BY DEF IsDifference
<1>5. (Bit(task.op \in {"adc", "sbb"} /\ task.old.CF)) = Bit(c)
  BY <1>1
<1>6. \A a, b : Exact(a, b)' = a - b - Bit(c)
  BY <1>1, <1>5 DEF Exact
<1>7. task.op = "sub" => ~c
  OBVIOUS
<1> HIDE DEF f, y, w, l, c
<1>8. /\ y \in Word(w) /\ y = Wrap(w, l - right - Bit(c))
      /\ SubBorrow(l, right, c) = (l - right - Bit(c) \notin Word(w))
      /\ AuxCarry(w, l, right, y)
            = (LowNibble(l) - LowNibble(right) - Bit(c) \notin 0 .. 15)
      /\ SubOverflow(w, l, right, y)
            = (Signed(w, l) - Signed(w, right) - Bit(c)
                   \notin - MinSigned(w) .. MaxSigned(w))
      /\ ~c => /\ y = 0 <=> l = right
               /\ (Msb(w, y) = SubOverflow(w, l, right, y))
                     <=> Signed(w, l) >= Signed(w, right)
  BY <1>2, <1>4, DifferenceFlags
<1>9. Msb(w, y) = (Signed(w, y) < 0)
  BY <1>2, <1>8, MsbIsSign
<1>10. FlagsAreArithmetic'
  BY <1>1, <1>3, <1>6, <1>8, <1>9
     DEF Word, FlagsAreArithmetic, Executed, w, l
<1>11. ASSUME task.op = "sub",
              NEW cc \in {"E", "NE", "B", "AE", "BE", "A", "L", "GE", "LE", "G"}
       PROVE  Met(cc, f) = Compare(w, cc, l, right)
  <2>1. /\ l \in Int /\ right \in Int /\ Signed(w, l) \in Int /\ Signed(w, right) \in Int
        /\ l = right => Signed(w, l) = Signed(w, right)
        /\ Signed(w, l) = Signed(w, right) => l = right
    BY <1>2, SignedIsInjective
  <2>2. f.CF = (l < right)
    BY <1>3, <1>7, <1>11 DEF SubBorrow
  <2>3. f.ZF = (l = right)
    BY <1>3, <1>7, <1>8, <1>11
  <2>4. Msb(w, y) \in BOOLEAN /\ SubOverflow(w, l, right, y) \in BOOLEAN
    <3>1. Msb(w, y) \in BOOLEAN
      BY Zenon DEF Msb, BitAt
    <3> QED
      BY <3>1, FlagsAreBoolean
  <2>5. f.SF \in BOOLEAN /\ f.OF \in BOOLEAN
    BY <1>3, <2>4
  <2>6. (f.SF = f.OF) <=> Signed(w, l) >= Signed(w, right)
    BY <1>3, <1>7, <1>8, <1>11
  <2> QED
    BY <2>1, <2>2, <2>3, <2>5, <2>6, Comparisons
<1>12. ConditionsAreComparisons'
  BY <1>1, <1>11 DEF ConditionsAreComparisons, Executed, ConditionOperators, w, l
<1> QED
  BY <1>10, <1>12

LEMMA UnitsAreNumbers ==
    ASSUME NEW w \in {8, 16, 32}, NEW l \in Word(w)
    PROVE  /\ LowNibble(l) \in Int /\ LowNibble(0) \in Int /\ LowNibble(1) \in Int
           /\ Signed(w, l) \in Int /\ Signed(w, 0) \in Int /\ Signed(w, 1) \in Int
<1>1. 2^w \in Nat /\ l \in Int
  BY WidthSizes DEF Word
<1> QED
  BY <1>1 DEF LowNibble, Signed

LEMMA IncStep ==
    ASSUME TaskOK, Inc
    PROVE  FlagsAreArithmetic' /\ ConditionsAreComparisons'
<1> DEFINE w == task.width
           l == task.value
           y == Wrap(w, l + 1)
           f == Over(IncStatusFlagValues(w, l, y), task.old)
<1>1. /\ task' = task /\ task.op = "inc"
      /\ outcome'.right = 1 /\ outcome'.result = y /\ outcome'.flags = f
  BY DEF Inc, Execute
<1>2. /\ w \in {8, 16, 32} /\ l \in Word(w) /\ l \in Int
      /\ task.old \in [StatusFlag -> BOOLEAN]
  BY TaskFacts DEF TaskOK
<1>3. /\ f.CF = task.old.CF /\ f.AF = (LowNibble(l) = 15)
      /\ f.OF = (l = MaxSigned(w)) /\ f.ZF = (y = 0) /\ f.SF = Msb(w, y)
  BY <1>2, StepFields DEF IncStatusFlagValues
<1>4. IsWrapped(w, l + 1, y)
  BY DEF IsWrapped
<1>5. \A a, b : Exact(a, b)' = a + b + 0
  BY <1>1 DEF Exact, Bit
<1>6. y = Wrap(w, l + 1)
  OBVIOUS
<1> HIDE DEF f, y, w, l
<1>7. /\ y \in Word(w)
      /\ LowNibble(l) = 15 <=> LowNibble(l) + LowNibble(1) \notin 0 .. 15
      /\ l = MaxSigned(w) <=> Signed(w, l) + Signed(w, 1)
                                 \notin - MinSigned(w) .. MaxSigned(w)
  BY <1>2, <1>4, IncFlags
<1>8. Msb(w, y) = (Signed(w, y) < 0)
  BY <1>2, <1>7, MsbIsSign
<1>9. /\ LowNibble(l) \in Int /\ LowNibble(1) \in Int
      /\ Signed(w, l) \in Int /\ Signed(w, 1) \in Int
  BY <1>2, UnitsAreNumbers
<1>10. FlagsAreArithmetic'
  BY <1>1, <1>2, <1>3, <1>5, <1>6, <1>7, <1>8, <1>9
     DEF Word, FlagsAreArithmetic, Executed, w, l
<1>11. ConditionsAreComparisons'
  BY <1>1 DEF ConditionsAreComparisons, Executed
<1> QED
  BY <1>10, <1>11

LEMMA DecStep ==
    ASSUME TaskOK, Dec
    PROVE  FlagsAreArithmetic' /\ ConditionsAreComparisons'
<1> DEFINE w == task.width
           l == task.value
           y == Wrap(w, l - 1)
           f == Over(DecStatusFlagValues(w, l, y), task.old)
<1>1. /\ task' = task /\ task.op = "dec"
      /\ outcome'.right = 1 /\ outcome'.result = y /\ outcome'.flags = f
  BY DEF Dec, Execute
<1>2. /\ w \in {8, 16, 32} /\ l \in Word(w) /\ l \in Int
      /\ task.old \in [StatusFlag -> BOOLEAN]
  BY TaskFacts DEF TaskOK
<1>3. /\ f.CF = task.old.CF /\ f.AF = (LowNibble(l) = 0)
      /\ f.OF = (l = MinSigned(w)) /\ f.ZF = (y = 0) /\ f.SF = Msb(w, y)
  BY <1>2, StepFields DEF DecStatusFlagValues
<1>4. IsWrapped(w, l - 1, y)
  BY DEF IsWrapped
<1>5. \A a, b : Exact(a, b)' = a - b - 0
  BY <1>1 DEF Exact, Bit
<1>6. y = Wrap(w, l - 1)
  OBVIOUS
<1> HIDE DEF f, y, w, l
<1>7. /\ y \in Word(w)
      /\ LowNibble(l) = 0 <=> LowNibble(l) - LowNibble(1) \notin 0 .. 15
      /\ l = MinSigned(w) <=> Signed(w, l) - Signed(w, 1)
                                 \notin - MinSigned(w) .. MaxSigned(w)
  BY <1>2, <1>4, DecFlags
<1>8. Msb(w, y) = (Signed(w, y) < 0)
  BY <1>2, <1>7, MsbIsSign
<1>9. /\ LowNibble(l) \in Int /\ LowNibble(1) \in Int
      /\ Signed(w, l) \in Int /\ Signed(w, 1) \in Int
  BY <1>2, UnitsAreNumbers
<1>10. FlagsAreArithmetic'
  BY <1>1, <1>2, <1>3, <1>5, <1>6, <1>7, <1>8, <1>9
     DEF Word, FlagsAreArithmetic, Executed, w, l
<1>11. ConditionsAreComparisons'
  BY <1>1 DEF ConditionsAreComparisons, Executed
<1> QED
  BY <1>10, <1>11

LEMMA NegStep ==
    ASSUME TaskOK, Neg
    PROVE  FlagsAreArithmetic' /\ ConditionsAreComparisons'
<1> DEFINE w == task.width
           l == task.value
           y == Wrap(w, - l)
           f == Over(NegStatusFlagValues(w, l, y), task.old)
<1>1. /\ task' = task /\ task.op = "neg"
      /\ outcome'.right = 0 /\ outcome'.result = y /\ outcome'.flags = f
  BY DEF Neg, Execute
<1>2. w \in {8, 16, 32} /\ l \in Word(w) /\ l \in Int
  BY TaskFacts
<1>3. /\ f.CF = (l # 0) /\ f.AF = (LowNibble(l) # 0)
      /\ f.OF = (l = MinSigned(w)) /\ f.ZF = (y = 0) /\ f.SF = Msb(w, y)
  BY NegFields
<1>4. IsWrapped(w, - l, y)
  BY DEF IsWrapped
<1>5. \A a, b : Exact(a, b)' = a - b - 0
  BY <1>1 DEF Exact, Bit
<1>6. y = Wrap(w, 0 - l - 0)
  <2>1. 0 - l - 0 = - l
    BY <1>2
  <2> QED
    BY <2>1
<1> HIDE DEF f, y, w, l
<1>7. /\ y \in Word(w)
      /\ l # 0 <=> 0 - l \notin Word(w)
      /\ LowNibble(l) # 0 <=> LowNibble(0) - LowNibble(l) \notin 0 .. 15
      /\ l = MinSigned(w) <=> Signed(w, 0) - Signed(w, l)
                                 \notin - MinSigned(w) .. MaxSigned(w)
  BY <1>2, <1>4, NegFlags
<1>8. Msb(w, y) = (Signed(w, y) < 0)
  BY <1>2, <1>7, MsbIsSign
<1>9. /\ LowNibble(l) \in Int /\ LowNibble(0) \in Int
      /\ Signed(w, l) \in Int /\ Signed(w, 0) \in Int
  BY <1>2, UnitsAreNumbers
<1>10. FlagsAreArithmetic'
  BY <1>1, <1>2, <1>3, <1>5, <1>6, <1>7, <1>8, <1>9
     DEF Word, FlagsAreArithmetic, Executed, w, l
<1>11. ConditionsAreComparisons'
  BY <1>1 DEF ConditionsAreComparisons, Executed
<1> QED
  BY <1>10, <1>11

LEMMA LogicStep ==
    ASSUME TaskOK, Logic
    PROVE  FlagsAreArithmetic' /\ ConditionsAreComparisons'
<1> DEFINE y == task.value
           f == Over(LogicStatusFlagValues(task.width, y), task.old)
<1>1. /\ task' = task /\ task.op = "logic"
      /\ outcome'.right = 0 /\ outcome'.flags = f
  BY DEF Logic, Execute
<1>2. f.ZF = (y = 0)
  BY LogicFields
<1> HIDE DEF f
<1>3. FlagsAreArithmetic'
  BY <1>1 DEF FlagsAreArithmetic, Executed, Binary, Unary
<1>4. ASSUME NEW cc \in {"E", "NE"}
      PROVE  Met(cc, f) = Compare(task.width, cc, y, 0)
  BY <1>2 DEF Met, Compare
<1>5. ConditionsAreComparisons'
  BY <1>1, <1>4 DEF ConditionsAreComparisons, Executed, ConditionOperators
<1> QED
  BY <1>3, <1>5

\* Every other instruction is outside both properties.
LEMMA OtherStep ==
    ASSUME task' = task, task.op \notin Binary \cup Unary \cup {"logic"}
    PROVE  FlagsAreArithmetic' /\ ConditionsAreComparisons'
  BY DEF FlagsAreArithmetic, ConditionsAreComparisons, Executed, Binary, Unary

-----------------------------------------------------------------------------
FlagsInv == TaskOK /\ FlagsAreArithmetic /\ ConditionsAreComparisons

LEMMA FlagsInvInit == Init => FlagsInv
<1> SUFFICES ASSUME Init
             PROVE  FlagsInv
  OBVIOUS
<1>1. \E op \in Op, w \in Width, carry \in BOOLEAN : \E value \in Operand[w] :
          task = [op |-> op, width |-> w, value |-> value,
                  old |-> [f \in StatusFlag |-> carry]]
  BY DEF Init
<1>2. TaskOK
  BY <1>1 DEF TaskOK
<1>3. outcome = NotExecuted
  BY DEF Init
<1> QED
  BY <1>2, <1>3 DEF FlagsInv, FlagsAreArithmetic, ConditionsAreComparisons, Executed

LEMMA FlagsInvStep == FlagsInv /\ [Next]_vars => FlagsInv'
<1> SUFFICES ASSUME FlagsInv, [Next]_vars
             PROVE  FlagsInv'
  OBVIOUS
<1>1. TaskOK
  BY DEF FlagsInv
<1>2. ASSUME task' = task
      PROVE  TaskOK'
  BY <1>1, <1>2 DEF TaskOK
<1>3. CASE Inc
  BY <1>1, <1>2, <1>3, IncStep DEF FlagsInv, Inc, Execute
<1>4. CASE Dec
  BY <1>1, <1>2, <1>4, DecStep DEF FlagsInv, Dec, Execute
<1>5. CASE Neg
  BY <1>1, <1>2, <1>5, NegStep DEF FlagsInv, Neg, Execute
<1>6. CASE Logic
  BY <1>1, <1>2, <1>6, LogicStep DEF FlagsInv, Logic, Execute
<1>7. ASSUME NEW right \in Operand[task.width], Add(right)
      PROVE  FlagsInv'
  BY <1>1, <1>2, <1>7, AddStep DEF FlagsInv, Add, Execute
<1>8. ASSUME NEW right \in Operand[task.width], Sub(right)
      PROVE  FlagsInv'
  BY <1>1, <1>2, <1>8, SubStep DEF FlagsInv, Sub, Execute
<1>9. ASSUME NEW amount \in Amount, Shift(amount)
      PROVE  FlagsInv'
  <2>1. task' = task /\ task.op \notin Binary \cup Unary \cup {"logic"}
    BY <1>9 DEF Shift, ShiftedBy, Execute, Shifts, Binary, Unary
  <2> QED
    BY <1>2, <2>1, OtherStep DEF FlagsInv
<1>10. ASSUME NEW source, NEW amount \in Amount, DoubleShift(source, amount)
       PROVE  FlagsInv'
  <2>1. task' = task /\ task.op \notin Binary \cup Unary \cup {"logic"}
    BY <1>10 DEF DoubleShift, ShiftedBy, Execute, DoubleShifts, Binary, Unary
  <2> QED
    BY <1>2, <2>1, OtherStep DEF FlagsInv
<1>11. ASSUME NEW amount \in Amount, Rotate(amount)
       PROVE  FlagsInv'
  <2>1. task' = task /\ task.op \notin Binary \cup Unary \cup {"logic"}
    BY <1>11 DEF Rotate, RotatedBy, Execute, Rotates, Binary, Unary
  <2> QED
    BY <1>2, <2>1, OtherStep DEF FlagsInv
<1>12. ASSUME NEW amount \in Amount, RotateThroughCarry(amount)
       PROVE  FlagsInv'
  <2>1. task' = task /\ task.op \notin Binary \cup Unary \cup {"logic"}
    BY <1>12 DEF RotateThroughCarry, RotatedBy, Execute, CarryRotates, Binary, Unary
  <2> QED
    BY <1>2, <2>1, OtherStep DEF FlagsInv
<1>13. CASE UNCHANGED vars
  <2>1. task' = task /\ outcome' = outcome
    BY <1>13 DEF vars
  <2> QED
    BY <2>1 DEF FlagsInv, TaskOK, FlagsAreArithmetic, ConditionsAreComparisons,
                Executed, Exact
<1> QED
  BY <1>3, <1>4, <1>5, <1>6, <1>7, <1>8, <1>9, <1>10, <1>11, <1>12, <1>13 DEF Next

LEMMA FlagsInvariant == Spec => []FlagsInv
  BY FlagsInvInit, FlagsInvStep, PTL DEF Spec

(***************************************************************************)
(* For every pair of operands of 8, 16 and 32 bits, the flags computed     *)
(* from bits of the operands and the result (core/flags/values.ts) are the *)
(* ones the unbounded sum or difference calls for, and inc and dec keep    *)
(* the carry they found.                                                   *)
(***************************************************************************)
THEOREM FlagsOfArithmetic == Spec => []FlagsAreArithmetic
<1>1. FlagsInv => FlagsAreArithmetic
  BY DEF FlagsInv
<1> QED
  BY <1>1, FlagsInvariant, PTL

(***************************************************************************)
(* A condition on the flags of a subtraction or a logic result is the      *)
(* comparison of the operands that lazy/sources.ts replaces it with, for   *)
(* every operand of 8, 16 and 32 bits.                                     *)
(***************************************************************************)
THEOREM ConditionsCompareOperands == Spec => []ConditionsAreComparisons
<1>1. FlagsInv => ConditionsAreComparisons
  BY DEF FlagsInv
<1> QED
  BY <1>1, FlagsInvariant, PTL

-----------------------------------------------------------------------------
(***************************************************************************)
(* Shifts and rotations.  A word moved by n bits is what n moves by one    *)
(* bit make of it, by induction on n; the induction is over a bounded      *)
(* range, from a least count at which it would fail.                       *)
(***************************************************************************)
\* The powers of two around position n of a word of w bits.
LEMMA Powers ==
    ASSUME NEW w \in 1 .. 33, NEW n \in 0 .. w - 1
    PROVE  \E P \in Nat, Q \in Nat, H \in Nat :
              /\ P > 0 /\ Q > 0 /\ H > 0 /\ H = P * Q
              /\ P = 2^(w - n - 1) /\ 2^(w - n) = 2 * P /\ Q = 2^n /\ 2^(n + 1) = 2 * Q
              /\ H = 2^(w - 1) /\ 2^w = 2 * H
<1> DEFINE two(k) == 2^k
<1>1. /\ two(0) = 1
      /\ \A k \in 0 .. 32 : two(k) \in Nat /\ two(k) > 0 /\ two(k + 1) = 2 * two(k)
  BY PowerStep
<1> HIDE DEF two
<1> DEFINE S == {k \in 0 .. w - 1 : two(w - k - 1) * two(k) = two(w - 1)}
<1>2. 0 \in S
  <2>1. w - 0 - 1 = w - 1 /\ w - 1 \in 0 .. 32
    OBVIOUS
  <2>2. two(w - 0 - 1) * two(0) = two(w - 1)
    BY <1>1, <2>1
  <2> QED
    BY <2>2
<1>3. ASSUME NEW k \in 0 .. w - 2, k \in S
      PROVE  k + 1 \in S
  <2>1. w - (k + 1) - 1 \in 0 .. 32 /\ (w - (k + 1) - 1) + 1 = w - k - 1 /\ k \in 0 .. 32
    OBVIOUS
  <2>2. two(w - k - 1) = 2 * two(w - (k + 1) - 1) /\ two(k + 1) = 2 * two(k)
    BY <1>1, <2>1
  <2>3. /\ two(w - (k + 1) - 1) \in Int /\ two(k) \in Int
        /\ two(w - k - 1) * two(k) = two(w - 1)
    BY <1>1, <1>3, <2>1
  <2>4. two(w - (k + 1) - 1) * two(k + 1) = two(w - 1)
    BY <2>2, <2>3
  <2>5. k + 1 \in 0 .. w - 1
    OBVIOUS
  <2> QED
    BY <2>4, <2>5
<1>4. 0 .. w - 1 \subseteq S
  <2>1. w - 1 \in Nat /\ \A k \in 0 .. (w - 1) - 1 : k \in S => k + 1 \in S
    BY <1>3
  <2> HIDE DEF S
  <2> QED
    BY <1>2, <2>1, ReachesAll
<1>5. two(w - n - 1) * two(n) = two(w - 1)
  BY <1>4
<1>6. /\ w - n - 1 \in 0 .. 32 /\ (w - n - 1) + 1 = w - n /\ n \in 0 .. 32
      /\ w - 1 \in 0 .. 32 /\ (w - 1) + 1 = w
  OBVIOUS
<1>7. /\ two(w - n - 1) \in Nat /\ two(w - n - 1) > 0 /\ two(w - n) = 2 * two(w - n - 1)
      /\ two(n) \in Nat /\ two(n) > 0 /\ two(n + 1) = 2 * two(n)
      /\ two(w - 1) \in Nat /\ two(w - 1) > 0 /\ two(w) = 2 * two(w - 1)
  BY <1>1, <1>6
<1> QED
  BY <1>5, <1>7 DEF two

\* A word with its lower n bits shifted in from s, and with its upper n.
Left(w, x, s, n) == (x % 2^(w - n)) * 2^n + s \div 2^(w - n)
Right(w, x, s, n) == x \div 2^n + (s % 2^n) * 2^(w - n)

LEMMA NoMove ==
    ASSUME NEW w \in 1 .. 33, NEW x \in Word(w), NEW s \in Word(w)
    PROVE  Left(w, x, s, 0) = x /\ Right(w, x, s, 0) = x
<1> DEFINE M == 2^w
<1>1. M \in Nat /\ M > 0 /\ w - 0 = w /\ 2^0 = 1
  <2>1. w \in 0 .. 33
    OBVIOUS
  <2>2. 2^w \in Nat /\ 2^w > 0 /\ 2^0 = 1
    BY <2>1, PowerStep
  <2> QED
    BY <2>2
<1>2. x \in Int /\ 0 <= x /\ x < M /\ s \in Int /\ 0 <= s /\ s < M
  BY <1>1 DEF Word
<1>3. /\ Left(w, x, s, 0) = (x % M) * 1 + s \div M
      /\ Right(w, x, s, 0) = x \div 1 + (s % 1) * M
  BY <1>1 DEF Left, Right
<1> HIDE DEF M
<1>4. x % M = x /\ s \div M = 0
  <2>1. x = 0 * M + x /\ x \in 0 .. M - 1 /\ s = 0 * M + s /\ s \in 0 .. M - 1
    BY <1>1, <1>2
  <2> QED
    BY <1>1, <1>2, <2>1, UniqueRemainder, UniqueQuotient
<1>5. x \div 1 = x /\ s % 1 = 0
  BY <1>2
<1> QED
  BY <1>1, <1>2, <1>3, <1>4, <1>5

LEMMA FullMove ==
    ASSUME NEW w \in 1 .. 33, NEW x \in Word(w), NEW s \in Word(w)
    PROVE  Left(w, x, s, w) = s /\ Right(w, x, s, w) = s
<1> DEFINE M == 2^w
<1>1. M \in Nat /\ M > 0 /\ w - w = 0 /\ 2^0 = 1
  <2>1. w \in 0 .. 33
    OBVIOUS
  <2>2. 2^w \in Nat /\ 2^w > 0 /\ 2^0 = 1
    BY <2>1, PowerStep
  <2> QED
    BY <2>2
<1>2. x \in Int /\ 0 <= x /\ x < M /\ s \in Int /\ 0 <= s /\ s < M
  BY <1>1 DEF Word
<1>3. /\ Left(w, x, s, w) = (x % 1) * M + s \div 1
      /\ Right(w, x, s, w) = x \div M + (s % M) * 1
  BY <1>1 DEF Left, Right
<1> HIDE DEF M
<1>4. s % M = s /\ x \div M = 0
  <2>1. s = 0 * M + s /\ s \in 0 .. M - 1 /\ x = 0 * M + x /\ x \in 0 .. M - 1
    BY <1>1, <1>2
  <2> QED
    BY <1>1, <1>2, <2>1, UniqueRemainder, UniqueQuotient
<1>5. s \div 1 = s /\ x % 1 = 0
  BY <1>2
<1> QED
  BY <1>1, <1>2, <1>3, <1>4, <1>5

IsLeft(w, x, s, n, v) ==
    /\ w \in 1 .. 33 /\ n \in 0 .. w - 1 /\ x \in Word(w) /\ s \in Word(w)
    /\ v = Left(w, x, s, n)

\* One bit more to the left.
LEMMA LeftStep ==
    ASSUME NEW w, NEW x, NEW s, NEW n, NEW v, IsLeft(w, x, s, n, v)
    PROVE  /\ v \in Word(w)
           /\ v \div 2^(w - 1) = (x \div 2^(w - n - 1)) % 2
           /\ Wrap(w, 2 * v) + ((s \div 2^(w - n - 1)) % 2) = Left(w, x, s, n + 1)
<1> USE DEF IsLeft
<1>1. PICK P \in Nat, Q \in Nat, H \in Nat :
         /\ P > 0 /\ Q > 0 /\ H > 0 /\ H = P * Q
         /\ P = 2^(w - n - 1) /\ 2^(w - n) = 2 * P /\ Q = 2^n /\ 2^(n + 1) = 2 * Q
         /\ H = 2^(w - 1) /\ 2^w = 2 * H
  BY Powers, Zenon
<1>2. x \in Int /\ 0 <= x /\ x < 2 * H /\ s \in Int /\ 0 <= s /\ s < 2 * H
  BY <1>1 DEF Word
<1>3. PICK e \in Int, b \in {0, 1}, r \in 0 .. P - 1 :
         s \div P = 2 * e + b /\ s \div (2 * P) = e /\ (s \div P) % 2 = b
           /\ s = e * (2 * P) + (b * P + r)
  <2>1. \E c \in Int, b \in {0, 1}, r \in 0 .. P - 1 :
              /\ s \div P = 2 * c + b /\ s \div (2 * P) = c /\ (s \div P) % 2 = b
              /\ s % P = r /\ s % (2 * P) = b * P + r
              /\ s = c * (2 * P) + (b * P + r)
    BY <1>1, <1>2, Halves
  <2> QED
    BY <2>1, Zenon
<1>4. e \in 0 .. Q - 1
  <2>1. b * P + r \in 0 .. 2 * P - 1
    BY <1>1, <1>3
  <2> DEFINE o == b * P + r
  <2>2. o \in 0 .. 2 * P - 1 /\ s = e * (2 * P) + o
    BY <1>3, <2>1
  <2> HIDE DEF o
  <2>3. ~(e <= -1)
    <3> SUFFICES ASSUME e <= -1
                 PROVE  FALSE
      OBVIOUS
    <3>1. (-1 - e) * (2 * P) >= 0 /\ (-1 - e) * (2 * P) = - (2 * P) - e * (2 * P)
      BY <1>1
    <3> QED
      BY <1>1, <1>2, <2>2, <3>1
  <2>4. ~(e >= Q)
    <3> SUFFICES ASSUME e >= Q
                 PROVE  FALSE
      OBVIOUS
    <3>1. (e - Q) * (2 * P) >= 0 /\ (e - Q) * (2 * P) = e * (2 * P) - 2 * (P * Q)
      BY <1>1
    <3> QED
      BY <1>1, <1>2, <2>2, <3>1
  <2> QED
    BY <1>1, <2>3, <2>4
<1>5. v = (x % (2 * P)) * Q + e
  BY <1>1, <1>3 DEF Left
<1>6. /\ v \in 0 .. 2 * H - 1 /\ v \div H = (x \div P) % 2
      /\ (2 * v) % (2 * H) = (x % P) * (2 * Q) + 2 * e
  <2>1. IsDoubled(P, Q, H, x, e, v)
    BY <1>1, <1>2, <1>4, <1>5 DEF IsDoubled
  <2> QED
    BY <2>1, Doubling
<1>7. Left(w, x, s, n + 1) = (x % P) * (2 * Q) + (2 * e + b)
  <2>1. w - (n + 1) = w - n - 1
    OBVIOUS
  <2> QED
    BY <1>1, <1>3, <2>1 DEF Left
<1>8. x % P \in Int /\ (x % P) * (2 * Q) \in Int
  BY <1>1, <1>2
<1> QED
  BY <1>1, <1>3, <1>6, <1>7, <1>8 DEF Wrap, Word

IsRight(w, x, s, n, v) ==
    /\ w \in 1 .. 33 /\ n \in 0 .. w - 1 /\ x \in Word(w) /\ s \in Word(w)
    /\ v = Right(w, x, s, n)

\* One bit more to the right.
LEMMA RightStep ==
    ASSUME NEW w, NEW x, NEW s, NEW n, NEW v, IsRight(w, x, s, n, v)
    PROVE  /\ v \in Word(w)
           /\ v % 2 = (x \div 2^n) % 2
           /\ v \div 2 + ((s \div 2^n) % 2) * 2^(w - 1) = Right(w, x, s, n + 1)
<1> USE DEF IsRight
<1>1. PICK P \in Nat, Q \in Nat, H \in Nat :
         /\ P > 0 /\ Q > 0 /\ H > 0 /\ H = P * Q
         /\ P = 2^(w - n - 1) /\ 2^(w - n) = 2 * P /\ Q = 2^n /\ 2^(n + 1) = 2 * Q
         /\ H = 2^(w - 1) /\ 2^w = 2 * H
  BY Powers, Zenon
<1>2. x \in Int /\ 0 <= x /\ x < 2 * H /\ s \in Int
  BY <1>1 DEF Word
<1>3. v = x \div Q + (s % Q) * (2 * P)
  BY <1>1 DEF Right
<1>4. /\ v \in 0 .. 2 * H - 1 /\ v % 2 = (x \div Q) % 2
      /\ v \div 2 + ((s \div Q) % 2) * H = x \div (2 * Q) + (s % (2 * Q)) * P
  <2>1. IsHalved(P, Q, H, x, s, v)
    BY <1>1, <1>2, <1>3 DEF IsHalved
  <2> QED
    BY <2>1, Halving
<1>5. Right(w, x, s, n + 1) = x \div (2 * Q) + (s % (2 * Q)) * P
  <2>1. w - (n + 1) = w - n - 1
    OBVIOUS
  <2> QED
    BY <1>1, <2>1 DEF Right
<1> QED
  BY <1>1, <1>4, <1>5 DEF Word

\* The two parts the code joins are disjoint parts of the moved word.
LEMMA MoveParts ==
    ASSUME NEW w \in 1 .. 33, NEW n \in 0 .. w, NEW x \in Word(w), NEW s \in Word(w)
    PROVE  /\ Shl(w, x, n) + Shr(w, s, w - n) = Left(w, x, s, n)
           /\ Shr(w, x, n) + Shl(w, s, w - n) = Right(w, x, s, n)
<1>1. 0 \in Word(w) /\ x \in Int /\ s \in Int
  <2>1. w \in 0 .. 33
    OBVIOUS
  <2>2. 2^w \in Nat /\ 2^w > 0
    BY <2>1, PowerStep
  <2> QED
    BY <2>2 DEF Word
<1>2. CASE n = 0
  <2>1. /\ Shr(w, s, w - n) = 0 /\ Shl(w, s, w - n) = 0
        /\ Shl(w, x, n) = Shl(w, x, 0) /\ Shr(w, x, n) = Shr(w, x, 0)
    BY <1>2 DEF Shr, Shl
  <2>2. Shl(w, x, 0) = x /\ Shr(w, x, 0) = x
    <3>1. Left(w, x, 0, 0) = x /\ Right(w, x, 0, 0) = x
      BY <1>1, NoMove
    <3>2. w - 0 = w /\ ~(0 >= w) /\ 2^0 = 1
      BY PowerStep
    <3>3. Shl(w, x, 0) = x % 2^w /\ Shr(w, x, 0) = x
      <4>1. x \div 1 = x /\ x % 2^w \in Int
        <5>1. w \in 0 .. 33
          OBVIOUS
        <5>2. 2^w \in Nat /\ 2^w > 0
          BY <5>1, PowerStep
        <5> QED
          BY <1>1, <5>2
      <4> QED
        BY <3>2, <4>1 DEF Shl, Shr
    <3>4. x % 2^w = x
      <4>1. w \in 0 .. 33
        OBVIOUS
      <4>2. 2^w \in Nat /\ 2^w > 0
        BY <4>1, PowerStep
      <4>3. x \in 0 .. 2^w - 1 /\ x = 0 * 2^w + x
        BY <1>1, <4>2 DEF Word
      <4> QED
        BY <1>1, <4>2, <4>3, UniqueRemainder
    <3> QED
      BY <3>3, <3>4
  <2>3. Left(w, x, s, n) = x /\ Right(w, x, s, n) = x
    BY <1>2, NoMove
  <2> QED
    BY <1>1, <2>1, <2>2, <2>3
<1>3. CASE n = w
  <2>1. /\ Shl(w, x, n) = 0 /\ Shr(w, x, n) = 0 /\ w - n = 0
        /\ Shr(w, s, w - n) = s \div 1 /\ Shl(w, s, w - n) = (s % 2^w) * 1
    <3>1. 2^0 = 1 /\ w - 0 = w
      BY PowerStep
    <3> QED
      BY <1>3, <3>1 DEF Shl, Shr
  <2>2. s \div 1 = s /\ (s % 2^w) * 1 = s
    <3>1. w \in 0 .. 33
      OBVIOUS
    <3>2. 2^w \in Nat /\ 2^w > 0
      BY <3>1, PowerStep
    <3>3. s \in 0 .. 2^w - 1 /\ s = 0 * 2^w + s
      BY <1>1, <3>2 DEF Word
    <3>4. s % 2^w = s
      BY <1>1, <3>2, <3>3, UniqueRemainder
    <3> QED
      BY <1>1, <3>4
  <2>3. Left(w, x, s, n) = s /\ Right(w, x, s, n) = s
    BY <1>3, FullMove
  <2> QED
    BY <1>1, <2>1, <2>2, <2>3
<1>4. CASE n \in 1 .. w - 1
  <2>1. ~(n >= w) /\ ~(w - n >= w) /\ w - (w - n) = n
    BY <1>4
  <2> QED
    BY <2>1 DEF Shl, Shr, Left, Right
<1> QED
  BY <1>2, <1>3, <1>4

\* A single shift moves zeros in.
LEMMA SinglePart ==
    ASSUME NEW w \in 1 .. 33, NEW n \in 0 .. w, NEW x \in Word(w)
    PROVE  Shl(w, x, n) = Left(w, x, 0, n) /\ Shr(w, x, n) = Right(w, x, 0, n)
<1> DEFINE M == 2^w
           A == 2^(w - n)
           B == 2^n
<1>1. M \in Nat /\ M > 0 /\ A \in Nat /\ A > 0 /\ B \in Nat /\ B > 0
  <2>1. w \in 0 .. 33 /\ n \in 0 .. 33 /\ w - n \in 0 .. 33
    OBVIOUS
  <2> QED
    BY <2>1, PowerStep
<1>2. x \in 0 .. M - 1 /\ 0 \in Word(w)
  BY <1>1 DEF Word
<1>3. n = w => A = 1 /\ B = M
  <2>1. 2^0 = 1 /\ (n = w => w - n = 0)
    BY PowerStep
  <2> QED
    BY <2>1
<1>4. /\ Shl(w, x, n) = IF n >= w THEN 0 ELSE (x % A) * B
      /\ Shr(w, x, n) = IF n >= w THEN 0 ELSE x \div B
      /\ Left(w, x, 0, n) = (x % A) * B + 0 \div A
      /\ Right(w, x, 0, n) = x \div B + (0 % B) * A
  BY DEF Shl, Shr, Left, Right
<1> HIDE DEF M, A, B
<1>5. 0 \div A = 0 /\ 0 % B = 0
  BY <1>1
<1>6. x % A \in Int /\ x % 1 = 0 /\ (x % A) * B \in Int /\ x \div B \in Int
  BY <1>1, <1>2
<1>7. x \div M = 0
  <2>1. x = 0 * M + x
    BY <1>1, <1>2
  <2> QED
    BY <1>1, <1>2, <2>1, UniqueQuotient
<1>8. CASE n = w
  BY <1>1, <1>3, <1>4, <1>5, <1>6, <1>7, <1>8
<1>9. CASE n # w
  <2>1. ~(n >= w)
    BY <1>9
  <2> QED
    BY <1>1, <1>4, <1>5, <1>6, <2>1
<1> QED
  BY <1>8, <1>9

\* An arithmetic shift to the right moves copies of the sign in.
SignFill(w, x) == (x \div 2^(w - 1)) * (2^w - 1)

LEMMA FillBits ==
    ASSUME NEW w \in {8, 16, 32}, NEW x \in Word(w)
    PROVE  /\ x \div 2^(w - 1) \in {0, 1} /\ SignFill(w, x) \in Word(w)
           /\ \A n \in 0 .. w - 1 : (SignFill(w, x) \div 2^n) % 2 = x \div 2^(w - 1)
           /\ \A n \in 0 .. w - 1 :
                 Wrap(w, Signed(w, x) \div 2^n) = Right(w, x, SignFill(w, x), n)
           /\ Right(w, x, SignFill(w, x), w - 1) = SignFill(w, x)
<1> DEFINE t == x \div 2^(w - 1)
           f == SignFill(w, x)
<1>1. w \in 1 .. 33
  OBVIOUS
<1>2. ASSUME NEW n \in 0 .. w - 1
      PROVE  /\ t \in {0, 1} /\ f \in Word(w) /\ (f \div 2^n) % 2 = t
             /\ Wrap(w, Signed(w, x) \div 2^n) = Right(w, x, f, n)
             /\ n = w - 1 => Right(w, x, f, n) = f
  <2>1. PICK P \in Nat, Q \in Nat, H \in Nat :
           /\ P > 0 /\ Q > 0 /\ H > 0 /\ H = P * Q
           /\ P = 2^(w - n - 1) /\ 2^(w - n) = 2 * P /\ Q = 2^n /\ 2^(n + 1) = 2 * Q
           /\ H = 2^(w - 1) /\ 2^w = 2 * H
    BY <1>1, Powers, Zenon
  <2>2. x \in Int /\ 0 <= x /\ x < 2 * H
    BY <2>1 DEF Word
  <2>3. t = IF x < H THEN 0 ELSE 1
    <3>1. x < H => x = 0 * H + x /\ x \in 0 .. H - 1
      BY <2>1, <2>2
    <3>2. ~(x < H) => x = 1 * H + (x - H) /\ x - H \in 0 .. H - 1
      BY <2>1, <2>2
    <3>3. t = x \div H
      BY <2>1
    <3> HIDE DEF t
    <3> QED
      BY <2>1, <2>2, <3>1, <3>2, <3>3, UniqueQuotient
  <2>4. f = t * (2 * H - 1)
    BY <2>1 DEF SignFill
  <2>5. /\ Signed(w, x) = IF x < H THEN x ELSE x - 2 * H
        /\ \A y : Wrap(w, y) = y % (2 * H)
        /\ Right(w, x, f, n) = x \div Q + (f % Q) * (2 * P)
        /\ Signed(w, x) \div 2^n = Signed(w, x) \div Q /\ f \div 2^n = f \div Q
    BY <2>1 DEF Signed, Wrap, Right
  <2>6. f \in Word(w)
    BY <2>1, <2>3, <2>4 DEF Word
  <2>7. n = w - 1 => P = 1 /\ Q = H
    <3>1. 2^0 = 1 /\ (n = w - 1 => w - n - 1 = 0)
      BY PowerStep
    <3> QED
      BY <2>1, <3>1
  <2> DEFINE sx == Signed(w, x)
  <2> HIDE DEF t, f, sx
  <2>8. PICK a \in Int, u \in 0 .. Q - 1 : x = a * Q + u /\ x \div Q = a
    <3>1. x \div Q \in Int /\ x % Q \in 0 .. Q - 1 /\ x = (x \div Q) * Q + (x % Q)
      BY <2>1, <2>2
    <3> QED
      BY <3>1
  <2>9. f % Q = t * (Q - 1) /\ (f \div Q) % 2 = t
    <3>1. CASE t = 0
      <4>1. f = 0
        BY <2>1, <2>4, <3>1
      <4> QED
        BY <2>1, <3>1, <4>1
    <3>2. CASE t = 1
      <4>1. f = (2 * P - 1) * Q + (Q - 1)
        BY <2>1, <2>4, <3>2
      <4>2. f \in Int /\ 2 * P - 1 \in Int /\ Q - 1 \in 0 .. Q - 1
        BY <2>1, <4>1
      <4>3. f % Q = Q - 1 /\ f \div Q = 2 * P - 1
        BY <2>1, <4>1, <4>2, UniqueRemainder, UniqueQuotient
      <4>4. (2 * P - 1) % 2 = 1
        BY <2>1
      <4> QED
        BY <2>1, <3>2, <4>3, <4>4
    <3> QED
      BY <2>3, <3>1, <3>2
  <2>10. 0 <= a /\ a < 2 * P /\ (~(x < H) => a >= P)
    <3>1. ~(a <= -1)
      <4> SUFFICES ASSUME a <= -1
                   PROVE  FALSE
        OBVIOUS
      <4>1. (-1 - a) * Q >= 0 /\ (-1 - a) * Q = - Q - a * Q
        BY <2>1
      <4> QED
        BY <2>1, <2>2, <2>8, <4>1
    <3>2. ~(a >= 2 * P)
      <4> SUFFICES ASSUME a >= 2 * P
                   PROVE  FALSE
        OBVIOUS
      <4>1. (a - 2 * P) * Q >= 0 /\ (a - 2 * P) * Q = a * Q - 2 * (P * Q)
        BY <2>1
      <4> QED
        BY <2>1, <2>2, <2>8, <4>1
    <3>3. ASSUME ~(x < H), a <= P - 1
          PROVE  FALSE
      <4>1. (P - 1 - a) * Q >= 0 /\ (P - 1 - a) * Q = P * Q - Q - a * Q
        BY <2>1, <3>3
      <4> QED
        BY <2>1, <2>2, <2>8, <3>3, <4>1
    <3> QED
      BY <2>1, <3>1, <3>2, <3>3
  <2>11. (Q - 1) * (2 * P) = 2 * H - 2 * P /\ (Q - 1) * (2 * P) >= 0
    BY <2>1
  <2>12. Wrap(w, sx \div Q) = a + (f % Q) * (2 * P)
    <3>1. CASE x < H
      <4>1. sx = x /\ t = 0 /\ a < 2 * H /\ (t * (Q - 1)) * (2 * P) = 0
        BY <2>1, <2>3, <2>5, <2>10, <2>11, <3>1 DEF sx
      <4>2. a = 0 * (2 * H) + a /\ a \in 0 .. 2 * H - 1 /\ 2 * H \in Nat /\ 2 * H > 0
        BY <2>1, <2>10, <4>1
      <4>3. a % (2 * H) = a
        BY <4>2, UniqueRemainder
      <4> QED
        BY <2>5, <2>8, <2>9, <4>1, <4>3
    <3>2. CASE ~(x < H)
      <4>1. sx = (a - 2 * P) * Q + u /\ sx \in Int /\ t = 1
        BY <2>1, <2>2, <2>3, <2>5, <2>8, <3>2 DEF sx
      <4>2. a - 2 * P \in Int
        BY <2>1
      <4>3. sx \div Q = a - 2 * P
        BY <2>1, <2>8, <4>1, <4>2, UniqueQuotient
      <4> DEFINE o == a - 2 * P + 2 * H
                 m == 2 * H
      <4>4. /\ a - 2 * P = (-1) * m + o /\ o \in 0 .. m - 1 /\ m \in Nat /\ m > 0
            /\ a - 2 * P \in Int
        BY <2>1, <2>10, <2>11
      <4> HIDE DEF o, m
      <4>5. (a - 2 * P) % m = o
        BY <4>4, UniqueRemainder
      <4>6. (t * (Q - 1)) * (2 * P) = 2 * H - 2 * P
        BY <2>1, <2>11, <4>1
      <4> QED
        BY <2>1, <2>5, <2>9, <4>3, <4>5, <4>6 DEF o, m
    <3> QED
      BY <3>1, <3>2
  <2>13. ASSUME n = w - 1
         PROVE  a + (f % Q) * (2 * P) = f
    <3>1. P = 1 /\ Q = H
      BY <2>7, <2>13
    <3>2. a = t
      BY <2>3, <2>10, <3>1, <2>1, <2>8
    <3> QED
      BY <2>1, <2>3, <2>4, <2>9, <3>1, <3>2
  <2>14. t \in {0, 1}
    BY <2>3
  <2> QED
    BY <2>5, <2>6, <2>8, <2>9, <2>12, <2>13, <2>14 DEF sx
<1>3. 0 \in 0 .. w - 1 /\ w - 1 \in 0 .. w - 1
  OBVIOUS
<1> HIDE DEF t, f
<1>4. /\ t \in {0, 1} /\ f \in Word(w)
      /\ \A n \in 0 .. w - 1 : (f \div 2^n) % 2 = t
      /\ \A n \in 0 .. w - 1 : Wrap(w, Signed(w, x) \div 2^n) = Right(w, x, f, n)
      /\ Right(w, x, f, w - 1) = f
  BY <1>2, <1>3
<1> QED
  BY <1>4 DEF t, f

\* A rotation of w bits by one.
RotatedLeft(w, v) == Wrap(w, 2 * v) + v \div 2^(w - 1)
RotatedRight(w, v) == v \div 2 + (v % 2) * 2^(w - 1)

\* Every count of a rotation ends where its remainder by the width does.
LEMMA LeftRotation ==
    ASSUME NEW w \in {8, 9, 16, 17, 32, 33}, NEW x \in Word(w), NEW r, r[0] = x,
           \A n \in 0 .. 30 : r[n + 1] = RotatedLeft(w, r[n])
    PROVE  \A n \in 0 .. 31 : r[n] = Left(w, x, x, n % w)
<1> DEFINE S == {n \in 0 .. 31 : r[n] = Left(w, x, x, n % w)}
<1>1. w \in 1 .. 33
  OBVIOUS
<1>2. 0 \in S
  <2>1. 0 % w = 0
    OBVIOUS
  <2> QED
    BY <1>1, <2>1, NoMove
<1>3. ASSUME NEW n \in 0 .. 30, n \in S
      PROVE  n + 1 \in S
  <2>1. n % w \in 0 .. w - 1 /\ (n + 1) % w = IF n % w = w - 1 THEN 0 ELSE (n % w) + 1
    <3>1. CASE w \in {8, 9, 16}
      BY <3>1
    <3>2. CASE w \in {17, 32, 33}
      BY <3>2
    <3> QED
      BY <3>1, <3>2
  <2>2. PICK k \in 0 .. w - 1 : k = n % w
    BY <2>1
  <2> DEFINE v == r[n]
  <2>3. IsLeft(w, x, x, k, v) /\ r[n + 1] = RotatedLeft(w, v)
    BY <1>1, <1>3, <2>2 DEF IsLeft
  <2> HIDE DEF v
  <2>4. /\ v \div 2^(w - 1) = (x \div 2^(w - k - 1)) % 2
        /\ Wrap(w, 2 * v) + ((x \div 2^(w - k - 1)) % 2) = Left(w, x, x, k + 1)
    BY <1>1, <2>3, LeftStep
  <2>5. r[n + 1] = Left(w, x, x, k + 1)
    BY <2>3, <2>4, Zenon DEF RotatedLeft
  <2>6. CASE k = w - 1
    <3>1. k + 1 = w /\ (n + 1) % w = 0
      BY <2>1, <2>2, <2>6
    <3> QED
      BY <1>1, <2>5, <3>1, NoMove, FullMove
  <2>7. CASE k # w - 1
    <3>1. (n + 1) % w = k + 1
      BY <2>1, <2>2, <2>7
    <3> QED
      BY <2>5, <3>1
  <2> QED
    BY <2>6, <2>7
<1> HIDE DEF S
<1>4. 0 .. 31 \subseteq S
  <2>1. 31 \in Nat /\ \A n \in 0 .. 31 - 1 : n \in S => n + 1 \in S
    BY <1>3
  <2> QED
    BY <1>2, <2>1, ReachesAll
<1> QED
  BY <1>4 DEF S

LEMMA RightRotation ==
    ASSUME NEW w \in {8, 9, 16, 17, 32, 33}, NEW x \in Word(w), NEW r, r[0] = x,
           \A n \in 0 .. 30 : r[n + 1] = RotatedRight(w, r[n])
    PROVE  \A n \in 0 .. 31 : r[n] = Right(w, x, x, n % w)
<1> DEFINE S == {n \in 0 .. 31 : r[n] = Right(w, x, x, n % w)}
<1>1. w \in 1 .. 33
  OBVIOUS
<1>2. 0 \in S
  <2>1. 0 % w = 0
    OBVIOUS
  <2> QED
    BY <1>1, <2>1, NoMove
<1>3. ASSUME NEW n \in 0 .. 30, n \in S
      PROVE  n + 1 \in S
  <2>1. n % w \in 0 .. w - 1 /\ (n + 1) % w = IF n % w = w - 1 THEN 0 ELSE (n % w) + 1
    <3>1. CASE w \in {8, 9, 16}
      BY <3>1
    <3>2. CASE w \in {17, 32, 33}
      BY <3>2
    <3> QED
      BY <3>1, <3>2
  <2>2. PICK k \in 0 .. w - 1 : k = n % w
    BY <2>1
  <2> DEFINE v == r[n]
  <2>3. IsRight(w, x, x, k, v) /\ r[n + 1] = RotatedRight(w, v)
    BY <1>1, <1>3, <2>2 DEF IsRight
  <2> HIDE DEF v
  <2>4. /\ v % 2 = (x \div 2^k) % 2
        /\ v \div 2 + ((x \div 2^k) % 2) * 2^(w - 1) = Right(w, x, x, k + 1)
    BY <1>1, <2>3, RightStep
  <2>5. r[n + 1] = Right(w, x, x, k + 1)
    BY <2>3, <2>4, Zenon DEF RotatedRight
  <2>6. CASE k = w - 1
    <3>1. k + 1 = w /\ (n + 1) % w = 0
      BY <2>1, <2>2, <2>6
    <3> QED
      BY <1>1, <2>5, <3>1, NoMove, FullMove
  <2>7. CASE k # w - 1
    <3>1. (n + 1) % w = k + 1
      BY <2>1, <2>2, <2>7
    <3> QED
      BY <2>5, <3>1
  <2> QED
    BY <2>6, <2>7
<1> HIDE DEF S
<1>4. 0 .. 31 \subseteq S
  <2>1. 31 \in Nat /\ \A n \in 0 .. 31 - 1 : n \in S => n + 1 \in S
    BY <1>3
  <2> QED
    BY <1>2, <2>1, ReachesAll
<1> QED
  BY <1>4 DEF S

\* A moved word is a word.
LEMMA MovedIsWord ==
    ASSUME NEW w \in 1 .. 33, NEW n \in 0 .. w, NEW x \in Word(w), NEW s \in Word(w)
    PROVE  Left(w, x, s, n) \in Word(w) /\ Right(w, x, s, n) \in Word(w)
<1>1. CASE n = w
  BY <1>1, FullMove
<1>2. CASE n \in 0 .. w - 1
  <2>1. /\ IsLeft(w, x, s, n, Left(w, x, s, n))
        /\ IsRight(w, x, s, n, Right(w, x, s, n))
    BY <1>2 DEF IsLeft, IsRight
  <2> QED
    BY <2>1, LeftStep, RightStep
<1> QED
  BY <1>1, <1>2

\* The bits of a word.
LEMMA BitOfWord ==
    ASSUME NEW w \in {8, 16, 32}, NEW x, NEW k \in 0 .. w - 1
    PROVE  BitAt(w, x, k) = ((x \div 2^k) % 2 = 1)
<1>1. ShiftAmount(w, k) = k /\ ~(k >= w)
  <2>1. k \in 0 .. 31 /\ ~(w > 32)
    OBVIOUS
  <2> QED
    BY <2>1 DEF ShiftAmount
<1> QED
  BY <1>1 DEF BitAt, Shr

-----------------------------------------------------------------------------
(***************************************************************************)
(* The bits moved one by one.  A run lists what Moved gives from the       *)
(* start; it exists for every count, and the recursive function of         *)
(* MovedTimes is one.                                                      *)
(***************************************************************************)
Start == [value |-> task.value, source |-> outcome.source, carry |-> task.old.CF]

IsRun(g, k) ==
    /\ DOMAIN g = 0 .. k
    /\ g[0] = Start
    /\ \A n \in 0 .. k - 1 : g[n + 1] = Moved(g[n])

LEMMA RunsExist == \A k \in 0 .. 31 : \E g : IsRun(g, k)
<1> DEFINE S == {k \in 0 .. 31 : \E g : IsRun(g, k)}
<1>1. 0 \in S
  <2> DEFINE g == [n \in 0 .. 0 |-> Start]
  <2>1. IsRun(g, 0)
    BY DEF IsRun
  <2> QED
    BY <2>1
<1>2. ASSUME NEW k \in 0 .. 30, k \in S
      PROVE  k + 1 \in S
  <2>1. PICK h : IsRun(h, k)
    BY <1>2
  <2> DEFINE g == [n \in 0 .. k + 1 |-> IF n = k + 1 THEN Moved(h[k]) ELSE h[n]]
  <2>2. IsRun(g, k + 1)
    <3>1. DOMAIN g = 0 .. k + 1 /\ g[0] = Start
      BY <2>1 DEF IsRun
    <3>2. ASSUME NEW n \in 0 .. k
          PROVE  g[n + 1] = Moved(g[n])
      BY <2>1, <3>2 DEF IsRun
    <3> QED
      BY <3>1, <3>2 DEF IsRun
  <2> QED
    BY <2>2
<1> HIDE DEF S
<1>3. 0 .. 31 \subseteq S
  <2>1. 31 \in Nat /\ \A n \in 0 .. 31 - 1 : n \in S => n + 1 \in S
    BY <1>2
  <2> QED
    BY <1>1, <2>1, ReachesAll
<1> QED
  BY <1>3 DEF S

LEMMA MovedTimesIsRun ==
    \E g : IsRun(g, 31) /\ \A c \in 0 .. 31 : MovedTimes(c) = g[c]
<1> DEFINE Body(f) == [n \in 0 .. 31 |-> IF n = 0 THEN Start ELSE Moved(f[n - 1])]
<1>1. PICK g : IsRun(g, 31)
  BY RunsExist
<1>2. \E f : f = Body(f)
  <2>1. ASSUME NEW n \in 0 .. 31
        PROVE  g[n] = IF n = 0 THEN Start ELSE Moved(g[n - 1])
    <3>1. CASE n = 0
      BY <1>1, <3>1 DEF IsRun
    <3>2. CASE n # 0
      <4>1. n - 1 \in 0 .. 30 /\ (n - 1) + 1 = n
        BY <3>2
      <4> QED
        BY <1>1, <3>2, <4>1 DEF IsRun
    <3> QED
      BY <3>1, <3>2
  <2> DEFINE f == [n \in 0 .. 31 |-> g[n]]
  <2>2. \A n \in 0 .. 31 : f[n] = IF n = 0 THEN Start ELSE Moved(f[n - 1])
    BY <2>1
  <2>3. f = [n \in 0 .. 31 |-> IF n = 0 THEN Start ELSE Moved(f[n - 1])]
    BY <2>2
  <2> HIDE DEF f
  <2> QED
    BY <2>3
<1> DEFINE m == CHOOSE f : f = Body(f)
<1>3. m = Body(m)
  BY <1>2
<1>4. \A c \in 0 .. 31 : MovedTimes(c) = m[c]
  BY DEF MovedTimes, Start
<1> HIDE DEF m
<1>5. IsRun(m, 31)
  <2>1. DOMAIN m = 0 .. 31 /\ m[0] = Start
    BY <1>3
  <2>2. ASSUME NEW n \in 0 .. 30
        PROVE  m[n + 1] = Moved(m[n])
    <3>1. n + 1 \in 0 .. 31 /\ n + 1 # 0 /\ (n + 1) - 1 = n
      OBVIOUS
    <3> QED
      BY <1>3, <3>1
  <2> QED
    BY <2>1, <2>2 DEF IsRun
<1> QED
  BY <1>4, <1>5

\* Zero leaves nothing behind when it is moved in.
LEMMA ZeroBits ==
    ASSUME NEW k \in 0 .. 33
    PROVE  (0 \div 2^k) % 2 = 0
<1>1. 2^k \in Nat /\ 2^k > 0
  BY PowerStep
<1> DEFINE m == 2^k
<1> HIDE DEF m
<1> DEFINE z == 0 \div m
<1>2. z = 0
  BY <1>1 DEF m
<1> HIDE DEF z
<1>3. z % 2 = 0
  BY <1>2
<1> QED
  BY <1>3 DEF m, z

LEMMA LeftShiftRun ==
    ASSUME TaskOK, NEW g, IsRun(g, 31), task.op \in {"shl", "shld"},
           outcome.source \in Word(task.width),
           task.op = "shl" => outcome.source = 0
    PROVE  \A n \in 0 .. 31 :
              /\ n <= task.width =>
                    g[n].value = Left(task.width, task.value, outcome.source, n)
              /\ task.op = "shl" /\ n >= task.width => g[n].value = 0
              /\ n \in 1 .. task.width =>
                    g[n].carry = BitAt(task.width, task.value, task.width - n)
<1> DEFINE w == task.width
           x == task.value
           s == outcome.source
           In(t) == IF task.op = "shld" THEN t.source \div 2^(w - 1) ELSE 0
           T == {n \in 0 .. 31 :
                   /\ n <= w => g[n].value = Left(w, x, s, n) /\ g[n].source = Left(w, s, 0, n)
                   /\ task.op = "shl" /\ n >= w => g[n].value = 0
                   /\ n \in 1 .. w => g[n].carry = BitAt(w, x, w - n)}
<1>1. w \in {8, 16, 32} /\ x \in Word(w) /\ s \in Word(w) /\ w \in 1 .. 33 /\ 0 \in Word(w)
  <2>1. w \in {8, 16, 32} /\ x \in Word(w)
    BY TaskFacts
  <2>2. 0 \in Word(w)
    BY <2>1, WidthSizes DEF Word
  <2> QED
    BY <2>1, <2>2
<1>2. g[0].value = x /\ g[0].source = s
  BY DEF IsRun, Start
<1>3. ASSUME NEW n \in 0 .. 30
      PROVE  /\ g[n + 1].value = Wrap(w, 2 * g[n].value) + In(g[n])
             /\ g[n + 1].source = Wrap(w, 2 * g[n].source)
             /\ g[n + 1].carry = (g[n].value \div 2^(w - 1) = 1)
  <2>1. g[n + 1] = Moved(g[n])
    BY DEF IsRun
  <2> QED
    BY <2>1 DEF Moved, CarryRotates
<1>4. task.op \in {"shl", "shld"} /\ (task.op = "shl" => s = 0)
  OBVIOUS
<1>5. \A t : In(t) = IF task.op = "shld" THEN t.source \div 2^(w - 1) ELSE 0
  OBVIOUS
<1> HIDE DEF w, x, s, In
<1>6. 0 \in T
  <2>1. 0 <= w /\ ~(0 >= w) /\ 0 \notin 1 .. w
    BY <1>1
  <2>2. x = Left(w, x, s, 0) /\ s = Left(w, s, 0, 0)
    BY <1>1, NoMove
  <2> QED
    BY <1>2, <2>1, <2>2
<1>7. ASSUME NEW n \in 0 .. 30, n \in T
      PROVE  n + 1 \in T
  <2> DEFINE v == g[n].value
             u == g[n].source
  <2>1. CASE n < w
    <3>1. n \in 0 .. w - 1 /\ w - n - 1 \in 0 .. 33 /\ w - n - 1 \in 0 .. w - 1 /\ w - (n + 1) = w - n - 1
      BY <1>1, <2>1
    <3>2. v = Left(w, x, s, n) /\ u = Left(w, s, 0, n)
      BY <1>1, <1>7, <2>1
    <3> HIDE DEF v, u
    <3>3. IsLeft(w, x, s, n, v) /\ IsLeft(w, s, 0, n, u)
      BY <1>1, <3>1, <3>2 DEF IsLeft
    <3>4. /\ v \in Word(w) /\ v \div 2^(w - 1) = (x \div 2^(w - n - 1)) % 2
          /\ Wrap(w, 2 * v) + ((s \div 2^(w - n - 1)) % 2) = Left(w, x, s, n + 1)
      BY <3>3, LeftStep
    <3>5. /\ u \in Word(w) /\ u \div 2^(w - 1) = (s \div 2^(w - n - 1)) % 2
          /\ Wrap(w, 2 * u) + ((0 \div 2^(w - n - 1)) % 2) = Left(w, s, 0, n + 1)
      BY <3>3, LeftStep
    <3>6. (0 \div 2^(w - n - 1)) % 2 = 0
      BY <3>1, ZeroBits
    <3>7. In(g[n]) = (s \div 2^(w - n - 1)) % 2
      <4>1. CASE task.op = "shld"
        BY <1>5, <3>5, <4>1 DEF u
      <4>2. CASE task.op = "shl"
        BY <1>4, <1>5, <3>6, <4>2
      <4> QED
        BY <1>4, <4>1, <4>2
    <3>8. g[n + 1].value = Left(w, x, s, n + 1)
      BY <1>3, <3>4, <3>7 DEF v
    <3>9. g[n + 1].source = Left(w, s, 0, n + 1)
      <4>1. Wrap(w, 2 * u) \in Int
        <5>1. 2^w \in Nat /\ 2^w > 0 /\ u \in Int
          BY <1>1, <3>5, WidthSizes DEF Word
        <5> QED
          BY <5>1 DEF Wrap
      <4>2. Wrap(w, 2 * u) = Left(w, s, 0, n + 1)
        BY <3>5, <3>6, <4>1
      <4> QED
        BY <1>3, <4>2 DEF u
    <3>10. g[n + 1].carry = BitAt(w, x, w - (n + 1))
      <4>1. BitAt(w, x, w - n - 1) = ((x \div 2^(w - n - 1)) % 2 = 1)
        BY <1>1, <3>1, BitOfWord
      <4> QED
        BY <1>3, <3>1, <3>4, <4>1 DEF v
    <3>11. task.op = "shl" /\ n + 1 >= w => g[n + 1].value = 0
      <4>1. CASE n + 1 = w /\ task.op = "shl"
        BY <1>1, <1>4, <3>8, <4>1, FullMove
      <4> QED
        BY <1>1, <2>1, <4>1
    <3> QED
      BY <3>8, <3>9, <3>10, <3>11
  <2>2. CASE n >= w
    <3>1. ~(n + 1 <= w) /\ n + 1 \notin 1 .. w
      BY <1>1, <2>2
    <3>2. task.op = "shl" => g[n + 1].value = 0
      <4> SUFFICES ASSUME task.op = "shl"
                   PROVE  g[n + 1].value = 0
        OBVIOUS
      <4>1. v = 0 /\ In(g[n]) = 0
        BY <1>5, <1>7, <2>2
      <4>2. Wrap(w, 2 * 0) = 0
        <5>1. 2^w \in Nat /\ 2^w > 0
          BY <1>1, WidthSizes DEF Word
        <5> QED
          BY <5>1 DEF Wrap
      <4> QED
        BY <1>3, <4>1, <4>2
    <3> QED
      BY <3>1, <3>2
  <2> QED
    BY <1>1, <2>1, <2>2
<1> HIDE DEF T
<1>8. 0 .. 31 \subseteq T
  <2>1. 31 \in Nat /\ \A n \in 0 .. 31 - 1 : n \in T => n + 1 \in T
    BY <1>7
  <2> QED
    BY <1>6, <2>1, ReachesAll
<1> QED
  BY <1>8 DEF T, w, x, s

\* What a shift to the right fills the word with.
Filled ==
    CASE task.op = "shrd" -> outcome.source
      [] task.op = "sar" -> SignFill(task.width, task.value)
      [] OTHER -> 0

LEMMA RightShiftRun ==
    ASSUME TaskOK, NEW g, IsRun(g, 31), task.op \in {"shr", "sar", "shrd"},
           outcome.source \in Word(task.width)
    PROVE  \A n \in 0 .. 31 :
              /\ n <= task.width =>
                    g[n].value = Right(task.width, task.value, Filled, n)
              /\ task.op # "shrd" /\ n >= task.width => g[n].value = Filled
              /\ n \in 1 .. task.width =>
                    g[n].carry = BitAt(task.width, task.value, n - 1)
              /\ task.op = "sar" => g[n].value \div 2^(task.width - 1)
                                      = task.value \div 2^(task.width - 1)
<1> DEFINE w == task.width
           x == task.value
           s == outcome.source
           f == Filled
           t == x \div 2^(w - 1)
           In(p) == CASE task.op = "shrd" -> p.source % 2
                      [] task.op = "sar" -> p.value \div 2^(w - 1)
                      [] OTHER -> 0
           T == {n \in 0 .. 31 :
                   /\ n <= w => g[n].value = Right(w, x, f, n)
                   /\ n <= w => g[n].source = Right(w, s, 0, n)
                   /\ task.op = "sar" => g[n].value \div 2^(w - 1) = t
                   /\ task.op # "shrd" /\ n >= w => g[n].value = f
                   /\ n \in 1 .. w => g[n].carry = BitAt(w, x, n - 1)}
<1>1. w \in {8, 16, 32} /\ x \in Word(w) /\ s \in Word(w) /\ w \in 1 .. 33 /\ 0 \in Word(w)
  <2>1. w \in {8, 16, 32} /\ x \in Word(w)
    BY TaskFacts
  <2>2. 0 \in Word(w)
    BY <2>1, WidthSizes DEF Word
  <2> QED
    BY <2>1, <2>2
<1>2. g[0].value = x /\ g[0].source = s
  BY DEF IsRun, Start
<1>3. ASSUME NEW n \in 0 .. 30
      PROVE  /\ g[n + 1].value = g[n].value \div 2 + In(g[n]) * 2^(w - 1)
             /\ g[n + 1].source = g[n].source \div 2
             /\ g[n + 1].carry = (g[n].value % 2 = 1)
  <2>1. g[n + 1] = Moved(g[n])
    BY DEF IsRun
  <2>2. CASE task.op = "shr"
    BY <2>1, <2>2 DEF Moved, CarryRotates
  <2>3. CASE task.op = "shrd"
    BY <2>1, <2>3 DEF Moved, CarryRotates
  <2>4. CASE task.op = "sar"
    BY <2>1, <2>4 DEF Moved, CarryRotates
  <2> QED
    BY <2>2, <2>3, <2>4
<1>4. /\ t \in {0, 1} /\ f \in Word(w)
      /\ task.op = "shrd" => f = s
      /\ task.op = "shr" => f = 0
      /\ task.op = "sar" => f = t * (2^w - 1)
      /\ task.op = "sar" => \A n \in 0 .. w - 1 : (f \div 2^n) % 2 = t
  <2>1. /\ t \in {0, 1} /\ SignFill(w, x) \in Word(w)
        /\ \A n \in 0 .. w - 1 : (SignFill(w, x) \div 2^n) % 2 = t
    BY <1>1, FillBits
  <2>2. CASE task.op = "shr"
    <3>1. f = 0
      BY <2>2 DEF Filled
    <3> QED
      BY <1>1, <2>1, <2>2, <3>1
  <2>3. CASE task.op = "shrd"
    <3>1. f = s
      BY <2>3 DEF Filled
    <3> QED
      BY <1>1, <2>1, <2>3, <3>1
  <2>4. CASE task.op = "sar"
    <3>1. f = SignFill(w, x)
      BY <2>4 DEF Filled
    <3>2. SignFill(w, x) = t * (2^w - 1)
      BY DEF SignFill
    <3> QED
      BY <2>1, <2>4, <3>1, <3>2
  <2> QED
    BY <2>2, <2>3, <2>4
<1>5. /\ \A p : task.op = "shrd" => In(p) = p.source % 2
      /\ \A p : task.op = "sar" => In(p) = p.value \div 2^(w - 1)
      /\ \A p : task.op = "shr" => In(p) = 0
  OBVIOUS
<1>6. task.op \in {"shr", "sar", "shrd"} /\ t = x \div 2^(w - 1)
  OBVIOUS
<1> HIDE DEF w, x, s, f, t, In
<1>7. 0 \in T
  <2>1. 0 <= w /\ ~(0 >= w) /\ 0 \notin 1 .. w
    BY <1>1
  <2>2. x = Right(w, x, f, 0) /\ s = Right(w, s, 0, 0)
    BY <1>1, <1>4, NoMove
  <2>3. 0 \in 0 .. 31
    OBVIOUS
  <2>4. g[0].value = Right(w, x, f, 0) /\ g[0].source = Right(w, s, 0, 0)
    BY <1>2, <2>2
  <2>5. g[0].value \div 2^(w - 1) = t
    BY <1>2, <1>6
  <2> QED
    BY <2>1, <2>3, <2>4, <2>5
<1>8. 2^(w - 1) \in Nat /\ 2^(w - 1) > 0 /\ 2^w = 2 * 2^(w - 1)
  <2>1. 2^(w - 1) \in Nat /\ 2^(w - 1) >= 128 /\ 2^w = 2 * 2^(w - 1)
    BY <1>1, WidthSizes
  <2> DEFINE H == 2^(w - 1)
  <2> HIDE DEF H
  <2>2. H \in Nat /\ H > 0 /\ 2^w = 2 * H
    BY <2>1 DEF H
  <2> QED
    BY <2>2 DEF H
<1>9. ASSUME NEW n \in 0 .. 30, n \in T
      PROVE  n + 1 \in T
  <2> DEFINE v == g[n].value
             u == g[n].source
             H == 2^(w - 1)
  <2>1. CASE n < w
    <3>1. n \in 0 .. w - 1 /\ n \in 0 .. 33 /\ (n + 1) - 1 = n
      BY <1>1, <2>1
    <3>2. v = Right(w, x, f, n) /\ u = Right(w, s, 0, n) /\ (task.op = "sar" => v \div H = t)
      BY <1>1, <1>9, <2>1
    <3>3. /\ g[n + 1].value = v \div 2 + In(g[n]) * H
          /\ g[n + 1].source = u \div 2
          /\ g[n + 1].carry = (v % 2 = 1)
          /\ task.op = "shrd" => In(g[n]) = u % 2
          /\ task.op = "sar" => In(g[n]) = v \div H
          /\ task.op = "shr" => In(g[n]) = 0
      BY <1>3, <1>5
    <3> HIDE DEF v, u
    <3>4. IsRight(w, x, f, n, v) /\ IsRight(w, s, 0, n, u)
      BY <1>1, <1>4, <3>1, <3>2 DEF IsRight
    <3>5. /\ v \in Word(w) /\ v % 2 = (x \div 2^n) % 2
          /\ v \div 2 + ((f \div 2^n) % 2) * H = Right(w, x, f, n + 1)
      BY <3>4, RightStep
    <3>6. /\ u \in Word(w) /\ u % 2 = (s \div 2^n) % 2
          /\ u \div 2 + ((0 \div 2^n) % 2) * H = Right(w, s, 0, n + 1)
      <4> DEFINE z == 0
      <4>1. IsRight(w, s, z, n, u)
        BY <3>4
      <4> HIDE DEF z
      <4>2. /\ u \in Word(w) /\ u % 2 = (s \div 2^n) % 2
            /\ u \div 2 + ((z \div 2^n) % 2) * H = Right(w, s, z, n + 1)
        BY <4>1, RightStep
      <4> QED
        BY <4>2, Zenon DEF z
    <3>7. (0 \div 2^n) % 2 = 0
      BY <3>1, ZeroBits
    <3>8. In(g[n]) = (f \div 2^n) % 2
      <4>1. CASE task.op = "shrd"
        BY <1>4, <3>3, <3>6, <4>1
      <4>2. CASE task.op = "shr"
        BY <1>4, <3>3, <3>7, <4>2
      <4>3. CASE task.op = "sar"
        BY <1>4, <3>1, <3>2, <3>3, <4>3
      <4> QED
        BY <1>6, <4>1, <4>2, <4>3
    <3>9. g[n + 1].value = Right(w, x, f, n + 1)
      BY <3>3, <3>5, <3>8
    <3>10. g[n + 1].source = Right(w, s, 0, n + 1)
      <4>1. u \div 2 \in Int /\ 0 * H = 0
        BY <1>8, <3>6 DEF Word
      <4>2. u \div 2 + 0 * H = Right(w, s, 0, n + 1)
        BY <3>6, <3>7
      <4> HIDE DEF H
      <4> QED
        BY <3>3, <4>1, <4>2
    <3>11. g[n + 1].carry = BitAt(w, x, (n + 1) - 1)
      <4>1. BitAt(w, x, n) = ((x \div 2^n) % 2 = 1)
        BY <1>1, <3>1, BitOfWord
      <4> QED
        BY <3>1, <3>3, <3>5, <4>1
    <3>12. ASSUME task.op = "sar"
           PROVE  g[n + 1].value \div H = t
      <4>1. g[n + 1].value = t * H + v \div 2
        <5>1. v \div 2 \in Int
          BY <1>8, <3>5 DEF Word
        <5>2. H \in Nat /\ g[n + 1].value = v \div 2 + t * H
          BY <1>8, <3>2, <3>3, <3>12
        <5> HIDE DEF H
        <5> QED
          BY <1>4, <5>1, <5>2
      <4>2. v \div 2 \in 0 .. H - 1 /\ H \in Nat /\ H > 0
        <5>1. v \in 0 .. 2 * H - 1 /\ H \in Nat /\ H > 0
          BY <1>8, <3>5 DEF Word
        <5> HIDE DEF H
        <5> QED
          BY <5>1
      <4>3. g[n + 1].value \in Int /\ t \in Int
        <5> HIDE DEF H
        <5> QED
          BY <1>4, <4>1, <4>2
      <4> HIDE DEF H
      <4> QED
        BY <4>1, <4>2, <4>3, UniqueQuotient
    <3>13. ASSUME task.op # "shrd", n + 1 >= w
           PROVE  g[n + 1].value = f
      <4>1. n + 1 = w
        BY <1>1, <2>1, <3>13
      <4> QED
        BY <1>1, <1>4, <3>9, <4>1, FullMove
    <3> QED
      BY <3>9, <3>10, <3>11, <3>12, <3>13
  <2>2. CASE n >= w
    <3>1. ~(n + 1 <= w) /\ n + 1 \notin 1 .. w
      BY <1>1, <2>2
    <3>2. ASSUME task.op # "shrd"
          PROVE  g[n + 1].value = f /\ (task.op = "sar" => g[n + 1].value \div H = t)
      <4>1. v = f /\ (task.op = "sar" => v \div H = t)
        BY <1>9, <2>2, <3>2
      <4>2. g[n + 1].value = f \div 2 + In(g[n]) * H
        BY <1>3, <4>1
      <4>3. CASE task.op = "shr"
        <5>1. f = 0 /\ In(g[n]) = 0 /\ H \in Nat
          BY <1>4, <1>5, <1>8, <4>3
        <5> HIDE DEF H
        <5> QED
          BY <4>2, <4>3, <5>1
      <4>4. CASE task.op = "sar"
        <5>1. f = t * (2 * H - 1) /\ In(g[n]) = t /\ H \in Nat
          BY <1>4, <1>5, <1>8, <4>1, <4>4
        <5> HIDE DEF H
        <5>2. f \div 2 + t * H = f
          <6>1. CASE t = 0
            BY <5>1, <6>1
          <6>2. CASE t = 1
            BY <5>1, <6>2
          <6> QED
            BY <1>4, <6>1, <6>2
        <5> QED
          BY <4>1, <4>2, <5>1, <5>2
      <4> QED
        BY <1>6, <3>2, <4>3, <4>4
    <3> QED
      BY <3>1, <3>2
  <2> QED
    BY <1>1, <2>1, <2>2
<1> HIDE DEF T
<1>10. 0 .. 31 \subseteq T
  <2>1. 31 \in Nat /\ \A n \in 0 .. 31 - 1 : n \in T => n + 1 \in T
    BY <1>9
  <2> QED
    BY <1>7, <2>1, ReachesAll
<1> QED
  BY <1>10 DEF T, w, x, f, t

\* A word by its top bit and the bits below it, and by its low bit.
AreBits(w, v, H, t, o, b, h) ==
    /\ H = 2^(w - 1) /\ 2^w = 2 * H /\ H >= 128
    /\ 0 <= o /\ o < H /\ 0 <= h /\ h < H
    /\ v = t * H + o /\ v \div H = t /\ Wrap(w, 2 * v) = 2 * o
    /\ v = 2 * h + b /\ v % 2 = b /\ v \div 2 = h

LEMMA WordBits ==
    ASSUME NEW w \in {8, 16, 32}, NEW v \in Word(w)
    PROVE  \E H \in Nat, t \in {0, 1}, o \in Int, b \in {0, 1}, h \in Int :
              AreBits(w, v, H, t, o, b, h)
<1> DEFINE H == 2^(w - 1)
<1>1. H \in Nat /\ H >= 128 /\ 2^w = 2 * H
  <2>1. 2^(w - 1) \in Nat /\ 2^(w - 1) >= 128 /\ 2^w = 2 * 2^(w - 1)
    BY WidthSizes
  <2> QED
    BY <2>1
<1>2. v \in Int /\ 0 <= v /\ v < 2 * H /\ \A y : Wrap(w, y) = y % (2 * H)
  BY <1>1 DEF Word, Wrap
<1>3. H = 2^(w - 1)
  OBVIOUS
<1> HIDE DEF H
<1>4. PICK t \in {0, 1}, o \in Int : 0 <= o /\ o < H /\ v = t * H + o
  <2>1. CASE v < H
    <3>1. v = 0 * H + v
      BY <1>1, <1>2
    <3> QED
      BY <1>2, <2>1, <3>1
  <2>2. CASE ~(v < H)
    <3>1. v = 1 * H + (v - H) /\ v - H \in Int /\ 0 <= v - H /\ v - H < H
      BY <1>1, <1>2, <2>2
    <3> QED
      BY <3>1
  <2> QED
    BY <2>1, <2>2
<1>5. v \div H = t
  <2>1. t \in Int /\ o \in 0 .. H - 1 /\ H > 0
    BY <1>1, <1>4
  <2> QED
    BY <1>1, <1>2, <1>4, <2>1, UniqueQuotient
<1>6. Wrap(w, 2 * v) = 2 * o
  <2> DEFINE m == 2 * H
             d == 2 * v
  <2>1. /\ m \in Nat /\ m > 0 /\ d \in Int /\ t \in Int /\ 2 * o \in 0 .. m - 1
        /\ d = t * m + 2 * o
    BY <1>1, <1>2, <1>4
  <2>2. Wrap(w, d) = d % m
    BY <1>2
  <2> HIDE DEF m, d
  <2>3. d % m = 2 * o
    BY <2>1, UniqueRemainder
  <2> QED
    BY <2>2, <2>3 DEF d
<1>7. PICK b \in {0, 1}, h \in Int : v = 2 * h + b /\ v % 2 = b /\ v \div 2 = h
  <2>1. v \div 2 \in Int /\ v % 2 \in {0, 1} /\ v = 2 * (v \div 2) + (v % 2)
    BY <1>2
  <2> QED
    BY <2>1
<1>8. 0 <= h /\ h < H
  BY <1>1, <1>2, <1>7
<1>9. AreBits(w, v, H, t, o, b, h)
  BY <1>1, <1>3, <1>4, <1>5, <1>6, <1>7, <1>8 DEF AreBits
<1> QED
  BY <1>1, <1>4, <1>7, <1>9

LEMMA RotateRun ==
    ASSUME TaskOK, NEW g, IsRun(g, 31), task.op \in {"rol", "ror"}
    PROVE  \A n \in 0 .. 31 :
              /\ g[n].value =
                    IF task.op = "rol"
                    THEN Left(task.width, task.value, task.value, n % task.width)
                    ELSE Right(task.width, task.value, task.value, n % task.width)
              /\ n # 0 => g[n].carry = IF task.op = "rol" THEN g[n].value % 2 = 1
                                       ELSE g[n].value \div 2^(task.width - 1) = 1
<1> DEFINE w == task.width
           x == task.value
           r == [n \in 0 .. 31 |-> g[n].value]
<1>1. w \in {8, 16, 32} /\ w \in {8, 9, 16, 17, 32, 33} /\ x \in Word(w) /\ w \in 1 .. 33
  <2>1. w \in {8, 16, 32} /\ x \in Word(w)
    BY TaskFacts
  <2> QED
    BY <2>1
<1>2. r[0] = x
  BY DEF IsRun, Start
<1>3. ASSUME NEW n \in 0 .. 30
      PROVE  IF task.op = "rol"
             THEN /\ r[n + 1] = RotatedLeft(w, r[n])
                  /\ g[n + 1].carry = (r[n] \div 2^(w - 1) = 1)
             ELSE /\ r[n + 1] = RotatedRight(w, r[n])
                  /\ g[n + 1].carry = (r[n] % 2 = 1)
  <2>1. g[n + 1] = Moved(g[n]) /\ r[n] = g[n].value /\ r[n + 1] = g[n + 1].value
    BY DEF IsRun
  <2> HIDE DEF r
  <2>2. CASE task.op = "rol"
    BY <2>1, <2>2 DEF Moved, CarryRotates, RotatedLeft
  <2>3. CASE task.op = "ror"
    BY <2>1, <2>3 DEF Moved, CarryRotates, RotatedRight
  <2> QED
    BY <2>2, <2>3
<1>4. \A n \in 0 .. 31 : r[n] = g[n].value
  OBVIOUS
<1>5. task.op \in {"rol", "ror"}
  OBVIOUS
<1> HIDE DEF r, w, x
<1>6. \A n \in 0 .. 31 : r[n] = IF task.op = "rol" THEN Left(w, x, x, n % w)
                                ELSE Right(w, x, x, n % w)
  <2>1. CASE task.op = "rol"
    <3>1. \A n \in 0 .. 30 : r[n + 1] = RotatedLeft(w, r[n])
      BY <1>3, <2>1
    <3> QED
      BY <1>1, <1>2, <2>1, <3>1, LeftRotation
  <2>2. CASE task.op = "ror"
    <3>1. \A n \in 0 .. 30 : r[n + 1] = RotatedRight(w, r[n])
      BY <1>3, <2>2
    <3> QED
      BY <1>1, <1>2, <2>2, <3>1, RightRotation
  <2> QED
    BY <1>5, <2>1, <2>2
<1>7. \A n \in 0 .. 31 : r[n] \in Word(w)
  <2> SUFFICES ASSUME NEW n \in 0 .. 31
               PROVE  r[n] \in Word(w)
    OBVIOUS
  <2>1. n % w \in 0 .. w
    BY <1>1
  <2>2. PICK k \in 0 .. w : k = n % w
    BY <2>1
  <2>3. Left(w, x, x, k) \in Word(w) /\ Right(w, x, x, k) \in Word(w)
    BY <1>1, MovedIsWord
  <2> QED
    BY <1>6, <2>2, <2>3
<1>8. ASSUME NEW n \in 0 .. 31, n # 0
      PROVE  g[n].carry = IF task.op = "rol" THEN r[n] % 2 = 1 ELSE r[n] \div 2^(w - 1) = 1
  <2>1. PICK m \in 0 .. 30 : n = m + 1
    <3>1. n - 1 \in 0 .. 30 /\ n = (n - 1) + 1
      BY <1>8
    <3> QED
      BY <3>1
  <2> DEFINE v == r[m]
  <2>2. v \in Word(w)
    BY <1>7, <2>1
  <2>3. /\ task.op = "rol" => /\ r[n] = RotatedLeft(w, v)
                              /\ g[n].carry = (v \div 2^(w - 1) = 1)
        /\ task.op # "rol" => /\ r[n] = RotatedRight(w, v)
                              /\ g[n].carry = (v % 2 = 1)
    BY <1>3, <2>1
  <2> HIDE DEF v
  <2>4. PICK H \in Nat, t \in {0, 1}, o \in Int, b \in {0, 1}, h \in Int :
           AreBits(w, v, H, t, o, b, h)
    BY <1>1, <2>2, WordBits
  <2>9. v \div 2^(w - 1) = t /\ Wrap(w, 2 * v) = 2 * o /\ v % 2 = b /\ v \div 2 = h
    BY <2>4 DEF AreBits
  <2>5. CASE task.op = "rol"
    <3>1. r[n] = 2 * o + t /\ g[n].carry = (t = 1)
      BY <2>3, <2>9, <2>5 DEF RotatedLeft
    <3>2. (2 * o + t) % 2 = t
      OBVIOUS
    <3> QED
      BY <2>5, <3>1, <3>2
  <2>6. CASE task.op # "rol"
    <3>1. r[n] = b * H + h /\ g[n].carry = (b = 1)
      <4>1. h + b * H = b * H + h
        OBVIOUS
      <4>2. 2^(w - 1) = H
        BY <2>4 DEF AreBits
      <4> QED
        BY <2>3, <2>9, <2>6, <4>1, <4>2 DEF RotatedRight
    <3>2. b * H + h \in Int /\ b \in Int /\ h \in 0 .. H - 1 /\ H > 0
      <4>1. 0 <= h /\ h < H /\ H >= 128
        BY <2>4 DEF AreBits
      <4> QED
        BY <4>1
    <3> DEFINE y == r[n]
    <3>3. y \in Int /\ y = b * H + h
      BY <3>1, <3>2
    <3> HIDE DEF y
    <3>4. y \div H = b
      BY <3>2, <3>3, UniqueQuotient
    <3>5. 2^(w - 1) = H
      BY <2>4 DEF AreBits
    <3> QED
      BY <2>6, <3>1, <3>4, <3>5 DEF y
  <2> QED
    BY <2>5, <2>6
<1>9. ASSUME NEW n \in 0 .. 31
      PROVE  /\ g[n].value = IF task.op = "rol" THEN Left(w, x, x, n % w)
                             ELSE Right(w, x, x, n % w)
             /\ n # 0 => g[n].carry = IF task.op = "rol" THEN g[n].value % 2 = 1
                                      ELSE g[n].value \div 2^(w - 1) = 1
  BY <1>4, <1>6, <1>8
<1> QED
  BY <1>9 DEF w, x

-----------------------------------------------------------------------------
\* The word and the carry as one ring.
Ring(t) == t.value + Bit(t.carry) * 2^task.width

IsRing(w, v, c, y) ==
    w \in {8, 16, 32} /\ v \in Word(w) /\ c \in {0, 1} /\ y = v + c * 2^w

LEMMA RingStep ==
    ASSUME NEW w, NEW v, NEW c, NEW y, IsRing(w, v, c, y)
    PROVE  /\ y \in Word(w + 1) /\ Wrap(w, y) = v /\ y \div 2^w = c
           /\ RotatedLeft(w + 1, y) = 2 * v + c
           /\ RotatedRight(w + 1, y) = v \div 2 + c * 2^(w - 1) + (v % 2) * 2^w
<1> USE DEF IsRing
<1>1. PICK H \in Nat, t \in {0, 1}, o \in Int, b \in {0, 1}, h \in Int :
         AreBits(w, v, H, t, o, b, h)
  BY WordBits
<1>2. 2^(w + 1) = 2 * 2^w /\ (w + 1) - 1 = w
  <2> DEFINE two(k) == 2^k
  <2>1. \A k \in 0 .. 32 : two(k + 1) = 2 * two(k)
    BY PowerStep
  <2> HIDE DEF two
  <2>2. two(w + 1) = 2 * two(w)
    BY <2>1
  <2> QED
    BY <2>2 DEF two
<1>3. PICK M \in Nat : M = 2 * H /\ M = 2^w /\ 2^(w + 1) = 2 * M
  BY <1>1, <1>2 DEF AreBits
<1>4. v \in Int /\ 0 <= v /\ v < M
  BY <1>3 DEF Word
<1>5. y = c * M + v /\ y \in Int /\ v \in 0 .. M - 1 /\ M > 0 /\ c \in Int
  <2>1. y = v + c * M
    BY <1>3
  <2> QED
    BY <1>1, <1>3, <1>4, <2>1
<1>6. y % M = v /\ y \div M = c
  BY <1>5, UniqueRemainder, UniqueQuotient
<1>7. 0 <= y /\ y < 2 * M
  BY <1>4, <1>5
<1>8. (2 * y) % (2 * M) = 2 * v
  <2> DEFINE m == 2 * M
             d == 2 * y
  <2>1. m \in Nat /\ m > 0 /\ d \in Int /\ 2 * v \in 0 .. m - 1 /\ d = c * m + 2 * v
    BY <1>4, <1>5
  <2> HIDE DEF m, d
  <2>2. d % m = 2 * v
    BY <1>5, <2>1, UniqueRemainder
  <2> QED
    BY <2>2 DEF m, d
<1>9. y % 2 = b /\ y \div 2 = h + c * H
  <2>1. y = 2 * (h + c * H) + b
    BY <1>1, <1>3, <1>5 DEF AreBits
  <2> DEFINE k == h + c * H
  <2>2. k \in Int /\ y = 2 * k + b
    BY <1>1, <2>1
  <2> HIDE DEF k
  <2>3. y % 2 = b /\ y \div 2 = k
    BY <2>2
  <2> QED
    BY <2>3 DEF k
<1>10. RotatedLeft(w + 1, y) = 2 * v + c
  BY <1>2, <1>3, <1>6, <1>8 DEF RotatedLeft, Wrap
<1>11. RotatedRight(w + 1, y) = h + c * H + b * M
  BY <1>2, <1>3, <1>9 DEF RotatedRight
<1> QED
  BY <1>1, <1>3, <1>5, <1>6, <1>7, <1>10, <1>11 DEF Word, Wrap, AreBits

\* One rotation through the carry is one rotation of the ring.
LEMMA RingRotates ==
    ASSUME TaskOK, task.op \in CarryRotates, NEW p, NEW q, q = Moved(p),
           p.value \in Word(task.width), p.carry \in BOOLEAN
    PROVE  /\ q.value \in Word(task.width) /\ q.carry \in BOOLEAN
           /\ Ring(q) = IF task.op = "rcl" THEN RotatedLeft(task.width + 1, Ring(p))
                        ELSE RotatedRight(task.width + 1, Ring(p))
<1> DEFINE w == task.width
           v == p.value
           c == Bit(p.carry)
           y == Ring(p)
<1>1. w \in {8, 16, 32} /\ v \in Word(w) /\ c \in {0, 1} /\ y = v + c * 2^w
  <2>1. w \in {8, 16, 32}
    BY TaskFacts
  <2>2. c \in {0, 1}
    BY DEF Bit
  <2>3. y = v + c * 2^w
    BY DEF Ring
  <2> QED
    BY <2>1, <2>2, <2>3
<1>2. /\ task.op = "rcl" => /\ q.value = Wrap(w, 2 * v) + c
                            /\ q.carry = (v \div 2^(w - 1) = 1)
      /\ task.op # "rcl" => /\ q.value = v \div 2 + c * 2^(w - 1)
                            /\ q.carry = (v % 2 = 1)
  <2>1. CASE task.op = "rcl"
    BY <2>1 DEF Moved, CarryRotates
  <2>2. CASE task.op = "rcr"
    BY <2>2 DEF Moved, CarryRotates
  <2> QED
    BY <2>1, <2>2 DEF CarryRotates
<1>3. Ring(q) = q.value + Bit(q.carry) * 2^w
  BY DEF Ring
<1> HIDE DEF w, v, c, y
<1>4. /\ RotatedLeft(w + 1, y) = 2 * v + c
      /\ RotatedRight(w + 1, y) = v \div 2 + c * 2^(w - 1) + (v % 2) * 2^w
  <2>1. IsRing(w, v, c, y)
    BY <1>1 DEF IsRing
  <2> QED
    BY <2>1, RingStep
<1>5. PICK H \in Nat, t \in {0, 1}, o \in Int, b \in {0, 1}, h \in Int :
         AreBits(w, v, H, t, o, b, h)
  BY <1>1, WordBits
<1>6. /\ H = 2^(w - 1) /\ 2^w = 2 * H /\ H >= 128
      /\ 0 <= o /\ o < H /\ 0 <= h /\ h < H /\ v = t * H + o
      /\ v \div 2^(w - 1) = t /\ Wrap(w, 2 * v) = 2 * o /\ v % 2 = b /\ v \div 2 = h
  BY <1>5 DEF AreBits
<1>7. CASE task.op = "rcl"
  <2>1. q.value = 2 * o + c /\ q.carry = (t = 1)
    BY <1>2, <1>6, <1>7
  <2>2. Bit(q.carry) = t
    BY <2>1 DEF Bit
  <2>3. 2 * o + c \in 0 .. 2 * H - 1
    BY <1>1, <1>6
  <2>4. 2 * o + c + t * (2 * H) = 2 * v + c
    BY <1>1, <1>6
  <2> QED
    BY <1>3, <1>4, <1>6, <1>7, <2>1, <2>2, <2>3, <2>4 DEF Word, w, y
<1>8. CASE task.op # "rcl"
  <2>1. q.value = h + c * H /\ q.carry = (b = 1)
    BY <1>2, <1>6, <1>8
  <2>2. Bit(q.carry) = b
    BY <2>1 DEF Bit
  <2>3. h + c * H \in 0 .. 2 * H - 1
    BY <1>1, <1>6
  <2>4. RotatedRight(w + 1, y) = h + c * H + b * (2 * H)
    BY <1>4, <1>6
  <2>5. Ring(q) = h + c * H + b * (2 * H)
    BY <1>3, <1>6, <2>1, <2>2
  <2> QED
    BY <1>6, <1>8, <2>1, <2>3, <2>4, <2>5 DEF Word, w, y
<1> QED
  BY <1>7, <1>8

LEMMA CarryRotateRun ==
    ASSUME TaskOK, NEW g, IsRun(g, 31), task.op \in CarryRotates
    PROVE  \A n \in 0 .. 31 :
              /\ g[n].value \in Word(task.width) /\ g[n].carry \in BOOLEAN
              /\ Ring(g[n]) =
                    IF task.op = "rcl"
                    THEN Left(task.width + 1, Ring(Start), Ring(Start), n % (task.width + 1))
                    ELSE Right(task.width + 1, Ring(Start), Ring(Start), n % (task.width + 1))
<1> DEFINE w == task.width
           y == Ring(Start)
           r == [n \in 0 .. 31 |-> Ring(g[n])]
           T == {n \in 0 .. 31 : g[n].value \in Word(w) /\ g[n].carry \in BOOLEAN}
<1>1. /\ w \in {8, 16, 32} /\ g[0] = Start /\ \A n \in 0 .. 30 : g[n + 1] = Moved(g[n])
      /\ Start.value \in Word(w) /\ Start.carry \in BOOLEAN
  <2>1. w \in {8, 16, 32} /\ task.value \in Word(w) /\ task.old.CF \in BOOLEAN
    BY TaskFacts
  <2> QED
    BY <2>1 DEF IsRun, Start
<1>2. y \in Word(w + 1)
  <2>1. Bit(Start.carry) \in {0, 1}
    BY DEF Bit
  <2>2. y = Start.value + Bit(Start.carry) * 2^w
    BY DEF Ring
  <2>3. IsRing(w, Start.value, Bit(Start.carry), y)
    BY <1>1, <2>1, <2>2 DEF IsRing
  <2> QED
    BY <2>3, RingStep
<1>3. 0 .. 31 \subseteq T
  <2>1. 0 \in T
    BY <1>1
  <2>2. ASSUME NEW n \in 0 .. 30, n \in T
        PROVE  n + 1 \in T
    <3>1. g[n].value \in Word(w) /\ g[n].carry \in BOOLEAN /\ g[n + 1] = Moved(g[n])
      BY <1>1, <2>2
    <3>2. g[n + 1].value \in Word(w) /\ g[n + 1].carry \in BOOLEAN
      BY <3>1, RingRotates
    <3> QED
      BY <3>2
  <2> HIDE DEF T
  <2>3. 31 \in Nat /\ \A n \in 0 .. 31 - 1 : n \in T => n + 1 \in T
    BY <2>2
  <2> QED
    BY <2>1, <2>3, ReachesAll
<1>4. \A n \in 0 .. 31 : g[n].value \in Word(w) /\ g[n].carry \in BOOLEAN
  BY <1>3
<1>5. ASSUME NEW n \in 0 .. 30
      PROVE  r[n + 1] = IF task.op = "rcl" THEN RotatedLeft(w + 1, r[n])
                        ELSE RotatedRight(w + 1, r[n])
  <2>1. g[n].value \in Word(w) /\ g[n].carry \in BOOLEAN /\ g[n + 1] = Moved(g[n])
    BY <1>1, <1>4
  <2>2. Ring(g[n + 1]) = IF task.op = "rcl" THEN RotatedLeft(w + 1, Ring(g[n]))
                         ELSE RotatedRight(w + 1, Ring(g[n]))
    BY <2>1, RingRotates
  <2> QED
    BY <2>2
<1>6. r[0] = y /\ \A n \in 0 .. 31 : r[n] = Ring(g[n])
  BY <1>1
<1>7. w + 1 \in {8, 9, 16, 17, 32, 33}
  BY <1>1
<1> DEFINE W == w + 1
<1>8. /\ W \in {8, 9, 16, 17, 32, 33} /\ y \in Word(W)
      /\ \A n \in 0 .. 30 : r[n + 1] = IF task.op = "rcl" THEN RotatedLeft(W, r[n])
                                       ELSE RotatedRight(W, r[n])
  BY <1>2, <1>5, <1>7
<1> HIDE DEF r, w, y, W
<1>9. \A n \in 0 .. 31 : r[n] = IF task.op = "rcl" THEN Left(W, y, y, n % W)
                                ELSE Right(W, y, y, n % W)
  <2>1. CASE task.op = "rcl"
    <3>1. \A n \in 0 .. 30 : r[n + 1] = RotatedLeft(W, r[n])
      BY <1>8, <2>1
    <3> QED
      BY <1>6, <1>8, <2>1, <3>1, LeftRotation
  <2>2. CASE task.op # "rcl"
    <3>1. \A n \in 0 .. 30 : r[n + 1] = RotatedRight(W, r[n])
      BY <1>8, <2>2
    <3> QED
      BY <1>6, <1>8, <2>2, <3>1, RightRotation
  <2> QED
    BY <2>1, <2>2
<1>10. \A n \in 0 .. 31 : Ring(g[n]) = IF task.op = "rcl" THEN Left(W, y, y, n % W)
                                       ELSE Right(W, y, y, n % W)
  BY <1>6, <1>9
<1> QED
  BY <1>4, <1>10 DEF W, w, y

\* The sign, as a bit of the word.
LEMMA SignBit ==
    ASSUME NEW w \in {8, 16, 32}, NEW x \in Word(w)
    PROVE  Msb(w, x) = (x \div 2^(w - 1) = 1)
<1>1. w - 1 \in 0 .. w - 1
  OBVIOUS
<1>2. Msb(w, x) = ((x \div 2^(w - 1)) % 2 = 1)
  BY <1>1, BitOfWord DEF Msb
<1>3. x \div 2^(w - 1) \in {0, 1}
  BY FillBits
<1> DEFINE d == x \div 2^(w - 1)
<1> HIDE DEF d
<1>4. d \in {0, 1} /\ Msb(w, x) = (d % 2 = 1)
  BY <1>2, <1>3 DEF d
<1>5. Msb(w, x) = (d = 1)
  BY <1>4
<1> QED
  BY <1>5 DEF d

LEMMA SignsDiffer ==
    ASSUME NEW w \in {8, 16, 32}, NEW x \in Word(w), NEW y \in Word(w)
    PROVE  ((Signed(w, x) < 0) # (Signed(w, y) < 0)) = (Msb(w, x) # Msb(w, y))
  BY MsbIsSign

\* What a shift by one to the right, whatever comes in, makes of the sign.
LEMMA HalvedSign ==
    ASSUME NEW w \in {8, 16, 32}, NEW x \in Word(w), NEW in \in {0, 1},
           NEW y \in Int, y = x \div 2 + in * 2^(w - 1)
    PROVE  BitAt(w, y, w - 2) = Msb(w, x) /\ (in = 0 => ~Msb(w, y))
<1>1. PICK H \in Nat, t \in {0, 1}, o \in Int, b \in {0, 1}, h \in Int :
         AreBits(w, x, H, t, o, b, h)
  BY WordBits
<1>2. /\ H = 2^(w - 1) /\ 2^w = 2 * H /\ H >= 128
      /\ 0 <= o /\ o < H /\ 0 <= h /\ h < H /\ x = t * H + o
      /\ x = 2 * h + b /\ x \div 2 = h /\ x \div 2^(w - 1) = t
  BY <1>1 DEF AreBits
<1>3. PICK K \in Nat : K = 2^(w - 2) /\ H = 2 * K /\ K > 0
  <2> DEFINE two(k) == 2^k
  <2>1. \A k \in 0 .. 32 : two(k) \in Nat /\ two(k) > 0 /\ two(k + 1) = 2 * two(k)
    BY PowerStep
  <2> HIDE DEF two
  <2>2. w - 2 \in 0 .. 32 /\ (w - 2) + 1 = w - 1
    OBVIOUS
  <2>3. two(w - 2) \in Nat /\ two(w - 2) > 0 /\ two(w - 1) = 2 * two(w - 2)
    BY <2>1, <2>2
  <2> QED
    BY <1>2, <2>3 DEF two
<1>4. y = (2 * in + t) * K + (h - t * K) /\ h - t * K \in 0 .. K - 1
  <2>1. y = h + in * (2 * K)
    BY <1>2, <1>3
  <2>2. 2 * h + b = t * (2 * K) + o
    BY <1>2, <1>3
  <2> QED
    BY <1>2, <1>3, <2>1, <2>2
<1>5. y \div K = 2 * in + t
  <2> DEFINE q == 2 * in + t
             u == h - t * K
  <2>1. q \in Int /\ u \in 0 .. K - 1 /\ y = q * K + u
    BY <1>4
  <2> HIDE DEF q, u
  <2>2. y \div K = q
    BY <1>3, <2>1, UniqueQuotient
  <2> QED
    BY <2>2 DEF q
<1>6. BitAt(w, y, w - 2) = ((y \div K) % 2 = 1)
  <2>1. w - 2 \in 0 .. w - 1
    OBVIOUS
  <2> QED
    BY <1>3, <2>1, BitOfWord
<1>7. Msb(w, x) = (t = 1)
  BY <1>2, SignBit
<1>8. (2 * in + t) % 2 = t
  OBVIOUS
<1>9. ASSUME in = 0
      PROVE  ~Msb(w, y)
  <2>1. y = h /\ y \in Word(w)
    BY <1>2, <1>9 DEF Word
  <2>2. h \div H = 0
    <3>1. h = 0 * H + h /\ h \in 0 .. H - 1
      BY <1>2
    <3> QED
      BY <1>2, <3>1, UniqueQuotient
  <2>3. Msb(w, y) = (y \div 2^(w - 1) = 1)
    BY <2>1, SignBit
  <2>4. Msb(w, y) = (y \div H = 1)
    BY <1>2, <2>3
  <2>5. y \div H = 0
    BY <2>1, <2>2
  <2> DEFINE d == y \div H
  <2> HIDE DEF d
  <2>6. d = 0 /\ Msb(w, y) = (d = 1)
    BY <2>4, <2>5 DEF d
  <2>7. d # 1
    BY <2>6
  <2> QED
    BY <2>6, <2>7, Zenon
<1> QED
  BY <1>5, <1>6, <1>7, <1>8, <1>9

-----------------------------------------------------------------------------
\* The flags of a shift and of a rotation over the ones before it.
LEMMA ShiftFields ==
    ASSUME NEW op, NEW w, NEW x, NEW n \in Int, NEW y, NEW old \in [StatusFlag -> BOOLEAN],
           NEW f, f = Over(ShiftStatusFlagValues(op, w, x, n, y, old), old)
    PROVE  /\ n = 0 => f = old
           /\ n # 0 => /\ f.CF = IF n <= w THEN ShiftCarry(op, w, x, n) ELSE old.CF
                       /\ f.OF = (n = 1 /\ ShiftOverflow(op, w, x, y,
                                                         ShiftCarry(op, w, x, n)))
<1>1. CASE n = 0
  <2>1. f = Over(old, old)
    BY <1>1 DEF ShiftStatusFlagValues
  <2>2. Over(old, old) = old
    BY DEF Over
  <2> QED
    BY <1>1, <2>1, <2>2
<1>2. CASE n # 0
  <2> DEFINE cf == ShiftCarry(op, w, x, n)
             of == n = 1 /\ ShiftOverflow(op, w, x, y, cf)
             ocf == IF n <= w THEN cf ELSE old.CF
             own == [CF |-> ocf, AF |-> FALSE, OF |-> of]
  <2>1. f = Over(Over(own, ZspValues(w, y)), old)
    BY <1>2 DEF ShiftStatusFlagValues
  <2> HIDE DEF cf, of, ocf
  <2>2. /\ DOMAIN own = {"CF", "AF", "OF"} /\ own["CF"] = ocf /\ own["OF"] = of
    OBVIOUS
  <2> HIDE DEF own
  <2>3. f.CF = ocf /\ f.OF = of
    BY <2>1, <2>2, ComputedFlags, ZspFields
  <2> QED
    BY <1>2, <2>3 DEF cf, of, ocf
<1> QED
  BY <1>1, <1>2

AreRotateFlags(op, w, n, y, carry, defined, old, f) ==
    /\ n \in Int /\ defined \in BOOLEAN /\ (n = 0 => ~defined)
    /\ old \in [StatusFlag -> BOOLEAN]
    /\ f = Over(RotateStatusFlagValues(op, w, n, y, carry, defined, old), old)

LEMMA RotateFields ==
    ASSUME NEW op, NEW w, NEW n, NEW y, NEW carry, NEW defined, NEW old, NEW f,
           AreRotateFlags(op, w, n, y, carry, defined, old, f)
    PROVE  /\ f.CF = IF defined THEN carry ELSE old.CF
           /\ n # 0 => f.OF = (n = 1 /\ RotateOverflow(op, w, y, carry))
           /\ n = 0 => f = old
           /\ \A p \in StatusFlag \ {"CF", "OF"} : f[p] = old[p]
<1> USE DEF AreRotateFlags
<1> DEFINE of == n = 1 /\ RotateOverflow(op, w, y, carry)
           ocf == IF defined THEN carry ELSE old.CF
           oof == IF n = 0 THEN old.OF ELSE of
           own == [CF |-> ocf, OF |-> oof]
<1>1. f = Over(own, old)
  BY DEF RotateStatusFlagValues
<1>2. DOMAIN own = {"CF", "OF"} /\ own["CF"] = ocf /\ own["OF"] = oof
  OBVIOUS
<1>3. n = 0 => ocf = old["CF"] /\ oof = old["OF"]
  OBVIOUS
<1>4. n # 0 => oof = of
  OBVIOUS
<1>5. DOMAIN old = StatusFlag /\ {"CF", "OF"} \subseteq StatusFlag
  BY DEF StatusFlag
<1> HIDE DEF own, ocf, oof
<1>6. f = [p \in StatusFlag |-> IF p \in {"CF", "OF"} THEN own[p] ELSE old[p]]
  <2>1. {"CF", "OF"} \cup StatusFlag = StatusFlag
    BY <1>5
  <2> QED
    BY <1>1, <1>2, <1>5, <2>1 DEF Over
<1>7. f["CF"] = ocf /\ f["OF"] = oof /\ \A p \in StatusFlag \ {"CF", "OF"} : f[p] = old[p]
  BY <1>2, <1>5, <1>6
<1>8. n = 0 => f = old
  <2> SUFFICES ASSUME n = 0
               PROVE  f = old
    OBVIOUS
  <2>1. \A p \in StatusFlag : f[p] = old[p]
    BY <1>3, <1>7
  <2>2. f = [p \in StatusFlag |-> f[p]] /\ old = [p \in StatusFlag |-> old[p]]
    BY <1>6
  <2> HIDE DEF StatusFlag
  <2> QED
    BY <2>1, <2>2
<1> QED
  BY <1>4, <1>7, <1>8 DEF ocf

(***************************************************************************)
(* What the invariant says of an executed shift or rotation: the outcome   *)
(* is the one the code computes from the task, the count and the source.   *)
(***************************************************************************)
ShiftOutcome ==
    Executed(Shifts \cup DoubleShifts) =>
        LET w == task.width
            n == outcome.right
            s == outcome.source IN
        /\ n \in 0 .. 31 /\ s \in Word(w) /\ (task.op \in Shifts => s = 0)
        /\ outcome.result =
              IF n = 0 THEN task.value
              ELSE IF task.op \in Shifts THEN ShiftResult(task.op, w, task.value, n)
              ELSE DoubleShiftResult(task.op, w, task.value, s, n)
        /\ outcome.flags =
              Over(ShiftStatusFlagValues(task.op, w, task.value, n, outcome.result,
                                         task.old), task.old)

RotateOutcome ==
    /\ Executed(Rotates) =>
          LET w == task.width
              n == outcome.right
              y == outcome.result IN
          /\ n \in 0 .. 31
          /\ y = IF task.op = "rol" THEN Rotl(w, task.value, n) ELSE Rotr(w, task.value, n)
          /\ outcome.flags =
                Over(RotateStatusFlagValues(task.op, w, n, y,
                        IF task.op = "rol" THEN BitAt(w, y, 0) ELSE Msb(w, y),
                        n # 0, task.old), task.old)
    /\ Executed(CarryRotates) =>
          LET w == task.width
              n == outcome.right
              e == ThroughCarryCount(w, n)
              rotated == RotateRing(task.op, w + 1, Ring(Start), e) IN
          /\ n \in 0 .. 31
          /\ outcome.result = IF e = 0 THEN task.value ELSE Wrap(w, rotated)
          /\ outcome.flags =
                Over(RotateStatusFlagValues(task.op, w, n, outcome.result,
                        IF e = 0 THEN task.old.CF ELSE BitAt(w + 1, rotated, w),
                        e # 0, task.old), task.old)

\* The result of a shift is the word the run reaches.
LEMMA ShiftReaches ==
    ASSUME TaskOK, NEW g, IsRun(g, 31), task.op \in Shifts \cup DoubleShifts,
           outcome.source \in Word(task.width), task.op \in Shifts => outcome.source = 0,
           NEW n \in 1 .. 31, task.op \in Shifts \/ n <= task.width
    PROVE  g[n].value = IF task.op \in Shifts
                        THEN ShiftResult(task.op, task.width, task.value, n)
                        ELSE DoubleShiftResult(task.op, task.width, task.value,
                                               outcome.source, n)
<1> DEFINE w == task.width
           x == task.value
           s == outcome.source
<1>1. w \in {8, 16, 32} /\ x \in Word(w) /\ s \in Word(w) /\ w \in 1 .. 33
  <2>1. w \in {8, 16, 32} /\ x \in Word(w)
    BY TaskFacts
  <2> QED
    BY <2>1
<1>2. n \in 0 .. 31
  OBVIOUS
<1>3. task.op \in {"shl", "shld"} =>
         /\ n <= w => g[n].value = Left(w, x, s, n)
         /\ task.op = "shl" /\ n >= w => g[n].value = 0
  <2> SUFFICES ASSUME task.op \in {"shl", "shld"}
               PROVE  /\ n <= w => g[n].value = Left(w, x, s, n)
                      /\ task.op = "shl" /\ n >= w => g[n].value = 0
    OBVIOUS
  <2>1. task.op = "shl" => s = 0
    BY DEF Shifts
  <2> QED
    BY <1>2, <2>1, LeftShiftRun
<1>4. task.op \in {"shr", "sar", "shrd"} =>
         /\ n <= w => g[n].value = Right(w, x, Filled, n)
         /\ task.op # "shrd" /\ n >= w => g[n].value = Filled
  BY <1>2, RightShiftRun
<1>5. CASE task.op = "shl"
  <2>1. s = 0 /\ ShiftResult(task.op, w, x, n) = Shl(w, x, n)
    BY <1>5 DEF Shifts, ShiftResult
  <2>2. CASE n < w
    <3>1. n \in 0 .. w
      BY <1>1, <2>2
    <3>2. Shl(w, x, n) = Left(w, x, 0, n)
      BY <1>1, <3>1, SinglePart
    <3> QED
      BY <1>1, <1>3, <1>5, <2>1, <2>2, <3>2 DEF Shifts
  <2>3. CASE n >= w
    <3>1. Shl(w, x, n) = 0
      BY <2>3 DEF Shl
    <3> QED
      BY <1>3, <1>5, <2>1, <2>3, <3>1 DEF Shifts
  <2> QED
    BY <1>1, <2>2, <2>3
<1>6. CASE task.op = "shr"
  <2>1. Filled = 0 /\ ShiftResult(task.op, w, x, n) = Shr(w, x, n)
    BY <1>6 DEF Filled, ShiftResult
  <2>2. CASE n < w
    <3>1. n \in 0 .. w
      BY <1>1, <2>2
    <3>2. Shr(w, x, n) = Right(w, x, 0, n)
      BY <1>1, <3>1, SinglePart
    <3> QED
      BY <1>1, <1>4, <1>6, <2>1, <2>2, <3>2 DEF Shifts
  <2>3. CASE n >= w
    <3>1. Shr(w, x, n) = 0
      BY <2>3 DEF Shr
    <3> QED
      BY <1>4, <1>6, <2>1, <2>3, <3>1 DEF Shifts
  <2> QED
    BY <1>1, <2>2, <2>3
<1>7. CASE task.op = "sar"
  <2>1. Filled = SignFill(w, x) /\ ShiftResult(task.op, w, x, n) = Sar(w, x, n)
    BY <1>7 DEF Filled, ShiftResult
  <2>2. CASE n < w
    <3>1. n \in 0 .. w - 1
      BY <1>1, <2>2
    <3>2. Wrap(w, Signed(w, x) \div 2^n) = Right(w, x, SignFill(w, x), n)
      BY <1>1, <3>1, FillBits
    <3>3. Sar(w, x, n) = Wrap(w, Signed(w, x) \div 2^n)
      BY <1>1, <2>2 DEF Sar
    <3> QED
      BY <1>1, <1>4, <1>7, <2>1, <2>2, <3>2, <3>3 DEF Shifts
  <2>3. CASE n >= w
    <3>1. w - 1 \in 0 .. w - 1
      BY <1>1
    <3>2. Wrap(w, Signed(w, x) \div 2^(w - 1)) = SignFill(w, x)
      <4>1. /\ Wrap(w, Signed(w, x) \div 2^(w - 1)) = Right(w, x, SignFill(w, x), w - 1)
            /\ Right(w, x, SignFill(w, x), w - 1) = SignFill(w, x)
        BY <1>1, <3>1, FillBits
      <4> QED
        BY <4>1
    <3>3. Sar(w, x, n) = Wrap(w, Signed(w, x) \div 2^(w - 1))
      BY <2>3 DEF Sar
    <3> QED
      BY <1>4, <1>7, <2>1, <2>3, <3>2, <3>3 DEF Shifts
  <2> QED
    BY <1>1, <2>2, <2>3
<1>8. CASE task.op \in DoubleShifts
  <2>1. task.op \notin Shifts /\ n <= w /\ n \in 0 .. w
    BY <1>1, <1>8 DEF Shifts, DoubleShifts
  <2>2. ShiftAmount(w, w - n) = w - n
    <3>1. w - n \in 0 .. 31 /\ ~(w > 32)
      BY <1>1, <2>1
    <3> QED
      BY <3>1 DEF ShiftAmount
  <2>3. /\ Shl(w, x, n) + Shr(w, s, w - n) = Left(w, x, s, n)
        /\ Shr(w, x, n) + Shl(w, s, w - n) = Right(w, x, s, n)
    BY <1>1, <2>1, MoveParts
  <2>4. DoubleShiftResult(task.op, w, x, s, n) = IF task.op = "shld" THEN Left(w, x, s, n)
                                                 ELSE Right(w, x, s, n)
    BY <2>2, <2>3 DEF DoubleShiftResult
  <2>5. task.op = "shrd" => Filled = s
    BY DEF Filled
  <2> QED
    BY <1>3, <1>4, <1>8, <2>1, <2>4, <2>5 DEF DoubleShifts
<1> QED
  BY <1>5, <1>6, <1>7, <1>8 DEF Shifts

\* The sign after one shift, and the overflow the code computes for it.
LEMMA ShiftedOnce ==
    ASSUME TaskOK, NEW g, IsRun(g, 31), task.op \in Shifts \cup DoubleShifts,
           outcome.source \in Word(task.width), task.op \in Shifts => outcome.source = 0
    PROVE  /\ g[1].value \in Word(task.width)
           /\ ShiftOverflow(task.op, task.width, task.value, g[1].value,
                            ShiftCarry(task.op, task.width, task.value, 1))
                 = (Msb(task.width, task.value) # Msb(task.width, g[1].value))
<1> DEFINE w == task.width
           x == task.value
           s == outcome.source
           y == g[1].value
           cf == ShiftCarry(task.op, w, x, 1)
<1>1. /\ w \in {8, 16, 32} /\ x \in Word(w) /\ s \in Word(w) /\ w \in 1 .. 33
      /\ 1 \in 0 .. w /\ 1 <= w /\ 0 \in Word(w)
  <2>1. w \in {8, 16, 32} /\ x \in Word(w)
    BY TaskFacts
  <2>2. 0 \in Word(w)
    BY <2>1, WidthSizes DEF Word
  <2> QED
    BY <2>1, <2>2
<1>2. 1 \in 0 .. 31
  OBVIOUS
<1>3. CASE task.op \in {"shl", "shld"}
  <2>1. task.op = "shl" => s = 0
    BY DEF Shifts
  <2>2. y = Left(w, x, s, 1)
    BY <1>1, <1>2, <1>3, <2>1, LeftShiftRun
  <2>3. y \in Word(w)
    BY <1>1, <2>2, MovedIsWord
  <2>4. cf = Msb(w, x)
    BY <1>3 DEF ShiftCarry, Msb
  <2>5. ShiftOverflow(task.op, w, x, y, cf) = (Msb(w, y) # cf)
    BY <1>3 DEF ShiftOverflow
  <2> HIDE DEF cf
  <2> QED
    BY <2>3, <2>4, <2>5 DEF cf
<1>4. CASE task.op = "shrd"
  <2>1. Filled = s
    BY <1>4 DEF Filled
  <2>2. y = Right(w, x, s, 1)
    BY <1>1, <1>2, <1>4, <2>1, RightShiftRun
  <2>3. y \in Word(w)
    BY <1>1, <2>2, MovedIsWord
  <2>4. ShiftOverflow(task.op, w, x, y, cf) = (Msb(w, x) # Msb(w, y))
    BY <1>4 DEF ShiftOverflow
  <2> QED
    BY <2>3, <2>4
<1>5. CASE task.op = "shr"
  <2>1. Filled = 0
    BY <1>5 DEF Filled
  <2>2. y = Right(w, x, 0, 1)
    BY <1>1, <1>2, <1>5, <2>1, RightShiftRun
  <2>3. y \in Word(w)
    BY <1>1, <2>2, MovedIsWord
  <2>4. y = x \div 2 + 0 * 2^(w - 1)
    <3>1. g[0 + 1] = Moved(g[0]) /\ g[0] = Start
      BY DEF IsRun
    <3>2. Start.value = x
      BY DEF Start
    <3> QED
      BY <1>5, <3>1, <3>2 DEF Moved, CarryRotates
  <2>5. y \in Int
    BY <1>1, <2>3, WidthSizes DEF Word
  <2> HIDE DEF y
  <2>6. ~Msb(w, y)
    BY <1>1, <2>4, <2>5, HalvedSign
  <2>7. ShiftOverflow(task.op, w, x, y, cf) = Msb(w, x)
    BY <1>5 DEF ShiftOverflow
  <2>8. Msb(w, x) \in BOOLEAN /\ Msb(w, y) \in BOOLEAN
    BY Zenon DEF Msb, BitAt
  <2>9. Msb(w, x) = (Msb(w, x) # Msb(w, y))
    <3> DEFINE a == Msb(w, x)
               b == Msb(w, y)
    <3> HIDE DEF a, b
    <3>1. a \in BOOLEAN /\ b \in BOOLEAN /\ ~b
      BY <2>6, <2>8 DEF a, b
    <3>2. a = (a # b)
      BY <3>1
    <3> QED
      BY <3>2 DEF a, b
  <2> QED
    BY <2>3, <2>7, <2>9 DEF y
<1>6. CASE task.op = "sar"
  <2>1. Filled = SignFill(w, x)
    BY <1>6 DEF Filled
  <2>2. y = Right(w, x, SignFill(w, x), 1) /\ y \div 2^(w - 1) = x \div 2^(w - 1)
    BY <1>1, <1>2, <1>6, <2>1, RightShiftRun
  <2>3. SignFill(w, x) \in Word(w)
    BY <1>1, FillBits
  <2>4. y \in Word(w)
    BY <1>1, <2>2, <2>3, MovedIsWord
  <2>5. Msb(w, x) = Msb(w, y)
    <3>1. Msb(w, x) = (x \div 2^(w - 1) = 1)
      BY <1>1, SignBit
    <3>2. Msb(w, y) = (y \div 2^(w - 1) = 1)
      BY <1>1, <2>4, SignBit
    <3> QED
      BY <2>2, <3>1, <3>2, Zenon
  <2>6. ShiftOverflow(task.op, w, x, y, cf) = FALSE
    BY <1>6 DEF ShiftOverflow
  <2> QED
    BY <2>4, <2>5, <2>6
<1> QED
  BY <1>3, <1>4, <1>5, <1>6 DEF Shifts, DoubleShifts

LEMMA ShiftsFollow ==
    ASSUME TaskOK, ShiftOutcome
    PROVE  ShiftsBitByBit
<1> SUFFICES ASSUME Executed(Shifts \cup DoubleShifts)
             PROVE  ShiftsBitByBit
  BY DEF ShiftsBitByBit
<1> DEFINE w == task.width
           x == task.value
           n == outcome.right
           s == outcome.source
           f == outcome.flags
<1>1. /\ task.op \in Shifts \cup DoubleShifts
      /\ n \in 0 .. 31 /\ s \in Word(w) /\ (task.op \in Shifts => s = 0)
      /\ outcome.result = IF n = 0 THEN x
                          ELSE IF task.op \in Shifts THEN ShiftResult(task.op, w, x, n)
                          ELSE DoubleShiftResult(task.op, w, x, s, n)
      /\ f = Over(ShiftStatusFlagValues(task.op, w, x, n, outcome.result, task.old), task.old)
  BY DEF ShiftOutcome, Executed
<1>2. w \in {8, 16, 32} /\ x \in Word(w) /\ task.old \in [StatusFlag -> BOOLEAN]
  BY TaskFacts DEF TaskOK
<1>3. PICK g : IsRun(g, 31) /\ \A c \in 0 .. 31 : MovedTimes(c) = g[c]
  BY MovedTimesIsRun
<1>4. /\ n = 0 => f = task.old
      /\ n # 0 => /\ f.CF = IF n <= w THEN ShiftCarry(task.op, w, x, n) ELSE task.old.CF
                  /\ f.OF = (n = 1 /\ ShiftOverflow(task.op, w, x, outcome.result,
                                                    ShiftCarry(task.op, w, x, n)))
  <2>1. n \in Int
    BY <1>1
  <2> HIDE DEF w, x, n, f
  <2> QED
    BY <1>1, <1>2, <2>1, ShiftFields
<1>5. g[0].value = x
  BY <1>3 DEF IsRun, Start
<1>6. task.op \in Shifts \/ n <= w => outcome.result = g[n].value
  <2> SUFFICES ASSUME task.op \in Shifts \/ n <= w
               PROVE  outcome.result = g[n].value
    OBVIOUS
  <2>1. CASE n = 0
    BY <1>1, <1>5, <2>1
  <2>2. CASE n # 0
    <3>1. n \in 1 .. 31
      BY <1>1, <2>2
    <3>2. g[n].value = IF task.op \in Shifts THEN ShiftResult(task.op, w, x, n)
                       ELSE DoubleShiftResult(task.op, w, x, s, n)
      BY <1>1, <1>3, <3>1, ShiftReaches
    <3> QED
      BY <1>1, <2>2, <3>2
  <2> QED
    BY <2>1, <2>2
<1>7. n \in 1 .. w => f.CF = g[n].carry
  <2> SUFFICES ASSUME n \in 1 .. w
               PROVE  f.CF = g[n].carry
    OBVIOUS
  <2>1. n # 0 /\ n <= w
    BY <1>2
  <2>2. f.CF = ShiftCarry(task.op, w, x, n)
    BY <1>4, <2>1
  <2>3. CASE task.op \in {"shl", "shld"}
    <3>1. task.op = "shl" => s = 0
      BY <1>1 DEF Shifts
    <3>2. g[n].carry = BitAt(w, x, w - n)
      BY <1>1, <1>3, <2>3, <3>1, LeftShiftRun
    <3> QED
      BY <2>2, <2>3, <3>2 DEF ShiftCarry
  <2>4. CASE task.op \in {"shr", "sar", "shrd"}
    <3>1. g[n].carry = BitAt(w, x, n - 1)
      BY <1>1, <1>3, <2>4, RightShiftRun
    <3> QED
      BY <2>2, <2>4, <3>1 DEF ShiftCarry
  <2> QED
    BY <1>1, <2>3, <2>4 DEF Shifts, DoubleShifts
<1>8. n = 1 => f.OF = SignChanged
  <2> SUFFICES ASSUME n = 1
               PROVE  f.OF = SignChanged
    OBVIOUS
  <2>1. outcome.result = g[1].value
    <3>1. n <= w
      BY <1>2
    <3> QED
      BY <1>6, <3>1
  <2>2. f.OF = ShiftOverflow(task.op, w, x, outcome.result, ShiftCarry(task.op, w, x, 1))
    <3>1. f.OF = (TRUE /\ ShiftOverflow(task.op, w, x, outcome.result,
                                        ShiftCarry(task.op, w, x, 1)))
      BY <1>4
    <3>2. /\ g[1].value \in Word(w)
          /\ ShiftOverflow(task.op, w, x, g[1].value, ShiftCarry(task.op, w, x, 1))
                = (Msb(w, x) # Msb(w, g[1].value))
      BY <1>1, <1>3, ShiftedOnce
    <3> QED
      BY <2>1, <3>1, <3>2
  <2>3. /\ outcome.result \in Word(w)
        /\ ShiftOverflow(task.op, w, x, outcome.result, ShiftCarry(task.op, w, x, 1))
              = (Msb(w, x) # Msb(w, outcome.result))
    BY <1>1, <1>3, <2>1, ShiftedOnce
  <2>4. SignChanged = (Msb(w, x) # Msb(w, outcome.result))
    BY <1>2, <2>3, SignsDiffer DEF SignChanged
  <2> QED
    BY <2>2, <2>3, <2>4
<1>9. MovedTimes(n) = g[n]
  BY <1>1, <1>3
<1> QED
  BY <1>4, <1>6, <1>7, <1>8, <1>9 DEF ShiftsBitByBit

\* After one rotation to the left the carry is the sign there was; after one to
\* the right the sign there was is the bit below the top.
LEMMA RotatedOnce ==
    ASSUME TaskOK, NEW g, IsRun(g, 31), task.op \in Rotates \cup CarryRotates,
           g[1].value \in Word(task.width)
    PROVE  RotateOverflow(task.op, task.width, g[1].value, g[1].carry)
              = (Msb(task.width, task.value) # Msb(task.width, g[1].value))
<1> DEFINE w == task.width
           x == task.value
           y == g[1].value
           z == g[1].carry
<1>1. w \in {8, 16, 32} /\ x \in Word(w) /\ y \in Word(w)
  BY TaskFacts
<1>2. g[1] = Moved(Start)
  <2>1. g[0 + 1] = Moved(g[0]) /\ g[0] = Start
    BY DEF IsRun
  <2> QED
    BY <2>1
<1>3. Start.value = x /\ Start.carry = task.old.CF
  BY DEF Start
<1>4. CASE task.op \in {"rol", "rcl"}
  <2>1. z = (x \div 2^(w - 1) = 1)
    BY <1>2, <1>3, <1>4 DEF Moved
  <2>2. Msb(w, x) = (x \div 2^(w - 1) = 1)
    BY <1>1, SignBit
  <2>3. RotateOverflow(task.op, w, y, z) = (Msb(w, y) # z)
    BY <1>4 DEF RotateOverflow
  <2>4. z = Msb(w, x)
    BY <2>1, <2>2, Zenon
  <2> HIDE DEF z, y, w, x
  <2> QED
    BY <2>3, <2>4 DEF z, y, w, x
<1>5. CASE task.op \in {"ror", "rcr"}
  <2>1. PICK in \in {0, 1} : y = x \div 2 + in * 2^(w - 1)
    <3>1. CASE task.op = "ror"
      <4>1. y = x \div 2 + (x % 2) * 2^(w - 1)
        BY <1>2, <1>3, <3>1 DEF Moved, CarryRotates
      <4>2. x % 2 \in {0, 1}
        BY <1>1, WidthSizes DEF Word
      <4> QED
        BY <4>1, <4>2
    <3>2. CASE task.op = "rcr"
      <4>1. y = x \div 2 + Bit(task.old.CF) * 2^(w - 1)
        BY <1>2, <1>3, <3>2 DEF Moved, CarryRotates
      <4>2. Bit(task.old.CF) \in {0, 1}
        BY DEF Bit
      <4> QED
        BY <4>1, <4>2
    <3> QED
      BY <1>5, <3>1, <3>2
  <2>2. y \in Int
    BY <1>1, WidthSizes DEF Word
  <2>3. RotateOverflow(task.op, w, y, z) = (Msb(w, y) # BitAt(w, y, w - 2))
    BY <1>5 DEF RotateOverflow
  <2> HIDE DEF y, z, w, x
  <2>4. BitAt(w, y, w - 2) = Msb(w, x)
    BY <1>1, <2>1, <2>2, HalvedSign
  <2> QED
    BY <2>3, <2>4 DEF y, z, w, x
<1> QED
  BY <1>4, <1>5 DEF Rotates, CarryRotates

\* What the result and the carry of the run are is what the code computes.
LEMMA RotateReaches ==
    ASSUME TaskOK, NEW g, IsRun(g, 31), task.op \in Rotates, NEW n \in 0 .. 31
    PROVE  LET y == IF task.op = "rol" THEN Rotl(task.width, task.value, n)
                    ELSE Rotr(task.width, task.value, n) IN
           /\ g[n].value = y /\ y \in Word(task.width)
           /\ n # 0 => g[n].carry = IF task.op = "rol" THEN BitAt(task.width, y, 0)
                                    ELSE Msb(task.width, y)
<1> DEFINE w == task.width
           x == task.value
           y == IF task.op = "rol" THEN Rotl(w, x, n) ELSE Rotr(w, x, n)
<1>1. w \in {8, 16, 32} /\ x \in Word(w) /\ w \in 1 .. 33
  <2>1. w \in {8, 16, 32} /\ x \in Word(w)
    BY TaskFacts
  <2> QED
    BY <2>1
<1>2. PICK k \in 0 .. w : k = n % w
  BY <1>1
<1>3. y = IF task.op = "rol" THEN Left(w, x, x, k) ELSE Right(w, x, x, k)
  <2>1. /\ Shl(w, x, k) + Shr(w, x, w - k) = Left(w, x, x, k)
        /\ Shr(w, x, k) + Shl(w, x, w - k) = Right(w, x, x, k)
    BY <1>1, <1>2, MoveParts
  <2> QED
    BY <1>2, <2>1 DEF Rotl, Rotr
<1>4. y \in Word(w)
  <2>1. Left(w, x, x, k) \in Word(w) /\ Right(w, x, x, k) \in Word(w)
    BY <1>1, <1>2, MovedIsWord
  <2> QED
    BY <1>3, <2>1
<1>5. task.op \in {"rol", "ror"}
  BY DEF Rotates
<1>6. /\ g[n].value = IF task.op = "rol" THEN Left(w, x, x, n % w) ELSE Right(w, x, x, n % w)
      /\ n # 0 => g[n].carry = IF task.op = "rol" THEN g[n].value % 2 = 1
                               ELSE g[n].value \div 2^(w - 1) = 1
  BY <1>5, RotateRun
<1>7. g[n].value = y
  BY <1>2, <1>3, <1>6
<1>8. BitAt(w, y, 0) = (y % 2 = 1)
  <2>1. 0 \in 0 .. w - 1
    BY <1>1
  <2>2. BitAt(w, y, 0) = ((y \div 2^0) % 2 = 1)
    BY <1>1, <2>1, BitOfWord
  <2>3. y \in Int /\ 2^0 = 1
    BY <1>1, <1>4, WidthSizes, PowerStep DEF Word
  <2> HIDE DEF y
  <2>4. y \div 2^0 = y
    BY <2>3
  <2> QED
    BY <2>2, <2>4
<1>9. Msb(w, y) = (y \div 2^(w - 1) = 1)
  BY <1>1, <1>4, SignBit
<1>10. n # 0 => g[n].carry = IF task.op = "rol" THEN BitAt(w, y, 0) ELSE Msb(w, y)
  <2> HIDE DEF y, w
  <2> QED
    BY <1>6, <1>7, <1>8, <1>9 DEF w
<1> QED
  BY <1>4, <1>7, <1>10

LEMMA CarryRotateReaches ==
    ASSUME TaskOK, NEW g, IsRun(g, 31), task.op \in CarryRotates, NEW n \in 0 .. 31
    PROVE  LET w == task.width
               e == ThroughCarryCount(w, n)
               rotated == RotateRing(task.op, w + 1, Ring(Start), e) IN
           /\ g[n].value = (IF e = 0 THEN task.value ELSE Wrap(w, rotated))
           /\ g[n].carry = (IF e = 0 THEN task.old.CF ELSE BitAt(w + 1, rotated, w))
           /\ g[n].value \in Word(w) /\ (n = 0 => e = 0)
<1> DEFINE w == task.width
           W == w + 1
           e == ThroughCarryCount(w, n)
           rotated == RotateRing(task.op, W, Ring(Start), e)
           v == g[n].value
           c == Bit(g[n].carry)
           r == Ring(g[n])
<1>1. /\ w \in {8, 16, 32} /\ W \in 1 .. 33 /\ W \in {9, 17, 33} /\ e = n % W
      /\ task.value \in Word(w) /\ task.old.CF \in BOOLEAN
  <2>1. w \in {8, 16, 32} /\ task.value \in Word(w) /\ task.old.CF \in BOOLEAN
    BY TaskFacts
  <2> QED
    BY <2>1 DEF ThroughCarryCount
<1>2. e \in 0 .. W - 1 /\ (n = 0 => e = 0)
  <2> HIDE DEF e
  <2>1. n % W \in 0 .. W - 1 /\ (n = 0 => n % W = 0)
    <3> HIDE DEF W
    <3> QED
      BY <1>1
  <2> QED
    BY <1>1, <2>1
<1>3. /\ v \in Word(w) /\ g[n].carry \in BOOLEAN
      /\ r = IF task.op = "rcl" THEN Left(W, Ring(Start), Ring(Start), e)
             ELSE Right(W, Ring(Start), Ring(Start), e)
  BY CarryRotateRun DEF ThroughCarryCount
<1>4. IsRing(w, v, c, r)
  <2>1. c \in {0, 1} /\ r = v + c * 2^w
    BY DEF Bit, Ring
  <2> QED
    BY <1>1, <1>3, <2>1 DEF IsRing
<1>5. r \in Word(W) /\ Wrap(w, r) = v /\ r \div 2^w = c
  BY <1>4, RingStep
<1>6. IsRing(w, task.value, Bit(task.old.CF), Ring(Start))
  <2>1. Bit(task.old.CF) \in {0, 1}
    BY DEF Bit
  <2>2. Ring(Start) = task.value + Bit(task.old.CF) * 2^w
    BY DEF Ring, Start
  <2> QED
    BY <1>1, <2>1, <2>2 DEF IsRing
<1>7. /\ Ring(Start) \in Word(W) /\ Wrap(w, Ring(Start)) = task.value
      /\ Ring(Start) \div 2^w = Bit(task.old.CF)
  BY <1>6, RingStep
<1>8. g[n].carry = (c = 1)
  BY <1>3 DEF Bit
<1>9. CASE e = 0
  <2>1. Left(W, Ring(Start), Ring(Start), 0) = Ring(Start)
    BY <1>1, <1>7, NoMove
  <2>2. Right(W, Ring(Start), Ring(Start), 0) = Ring(Start)
    BY <1>1, <1>7, NoMove
  <2>3. r = Ring(Start)
    BY <1>3, <1>9, <2>1, <2>2
  <2>4. v = task.value /\ c = Bit(task.old.CF)
    BY <1>5, <1>7, <2>3
  <2>5. (Bit(task.old.CF) = 1) = task.old.CF
    BY <1>1 DEF Bit
  <2>6. g[n].carry = task.old.CF
    BY <1>8, <2>4, <2>5
  <2> QED
    BY <1>2, <1>3, <1>9, <2>4, <2>6
<1>10. CASE e # 0
  <2>1. ShiftAmount(W, W - e) = W - e
    <3>1. W - e \in 1 .. W
      BY <1>1, <1>2, <1>10
    <3> HIDE DEF W, e
    <3>2. W > 32 => (W - e) % 64 = W - e
      BY <1>1, <3>1
    <3>3. ~(W > 32) => (W - e) % 32 = W - e
      BY <1>1, <3>1
    <3> QED
      BY <3>2, <3>3 DEF ShiftAmount
  <2>2. e \in 0 .. W
    BY <1>1, <1>2
  <2>3. /\ Shl(W, Ring(Start), e) + Shr(W, Ring(Start), W - e)
             = Left(W, Ring(Start), Ring(Start), e)
        /\ Shr(W, Ring(Start), e) + Shl(W, Ring(Start), W - e)
             = Right(W, Ring(Start), Ring(Start), e)
    <3> HIDE DEF W, e
    <3> QED
      BY <1>1, <1>7, <2>2, MoveParts
  <2>4. rotated = r
    <3>1. rotated = IF task.op = "rcl" THEN Left(W, Ring(Start), Ring(Start), e)
                    ELSE Right(W, Ring(Start), Ring(Start), e)
      BY <2>1, <2>3 DEF RotateRing
    <3> QED
      BY <1>3, <3>1
  <2>5. BitAt(W, r, w) = (c = 1)
    <3>1. ShiftAmount(W, w) = w /\ ~(w >= W)
      BY <1>1 DEF ShiftAmount
    <3>2. BitAt(W, r, w) = (c % 2 = 1)
      BY <1>5, <3>1 DEF BitAt, Shr
    <3>3. c \in {0, 1}
      BY DEF Bit
    <3> HIDE DEF c
    <3>4. (c % 2 = 1) = (c = 1)
      BY <3>3
    <3> QED
      BY <3>2, <3>4
  <2>6. v = Wrap(w, rotated) /\ g[n].carry = BitAt(W, rotated, w)
    BY <1>5, <1>8, <2>4, <2>5, Zenon
  <2> QED
    BY <1>2, <1>3, <1>10, <2>6
<1> QED
  BY <1>9, <1>10

LEMMA RotatesFollow ==
    ASSUME TaskOK, RotateOutcome
    PROVE  RotatesBitByBit
<1> SUFFICES ASSUME Executed(Rotates \cup CarryRotates)
             PROVE  RotatesBitByBit
  BY DEF RotatesBitByBit
<1> DEFINE w == task.width
           n == outcome.right
           y == outcome.result
           f == outcome.flags
           old == task.old
           IsOutcome(carry, defined) ==
               f = Over(RotateStatusFlagValues(task.op, w, n, y, carry, defined, old), old)
<1>1. PICK g : IsRun(g, 31) /\ \A c \in 0 .. 31 : MovedTimes(c) = g[c]
  BY MovedTimesIsRun
<1>2. /\ task.op \in Rotates \cup CarryRotates /\ n \in 0 .. 31
      /\ w \in {8, 16, 32} /\ task.value \in Word(w)
      /\ old \in [StatusFlag -> BOOLEAN] /\ g[0].carry = old.CF
  <2>1. n \in 0 .. 31 /\ task.op \in Rotates \cup CarryRotates
    BY DEF RotateOutcome, Executed
  <2>2. g[0].carry = old.CF
    BY <1>1 DEF IsRun, Start
  <2> QED
    BY <2>1, <2>2, TaskFacts DEF TaskOK
\* Whatever the kind of rotation: a carry that is the run's, or the one before.
<1>3. \E carry, defined \in BOOLEAN :
         /\ IsOutcome(carry, defined) /\ (n = 0 => ~defined)
         /\ y = g[n].value /\ y \in Word(w)
         /\ g[n].carry = IF defined THEN carry ELSE old.CF
         /\ n = 1 => carry = g[n].carry
  <2>1. CASE task.op \in Rotates
    <3> DEFINE carry == IF task.op = "rol" THEN BitAt(w, y, 0) ELSE Msb(w, y)
    <3>1. /\ y = IF task.op = "rol" THEN Rotl(w, task.value, n) ELSE Rotr(w, task.value, n)
          /\ IsOutcome(carry, n # 0)
      BY <1>2, <2>1 DEF RotateOutcome, Executed
    <3>2. /\ g[n].value = y /\ y \in Word(w)
          /\ n # 0 => g[n].carry = carry
      <4> DEFINE r == IF task.op = "rol" THEN Rotl(w, task.value, n)
                      ELSE Rotr(w, task.value, n)
      <4>1. /\ g[n].value = r /\ r \in Word(w)
            /\ n # 0 => g[n].carry = IF task.op = "rol" THEN BitAt(w, r, 0) ELSE Msb(w, r)
        BY <1>1, <1>2, <2>1, RotateReaches
      <4>2. y = r
        BY <3>1
      <4> HIDE DEF r
      <4> QED
        BY <4>1, <4>2
    <3>3. n = 0 => g[n].carry = old.CF
      BY <1>2
    <3>4. carry \in BOOLEAN
      BY Zenon DEF Msb, BitAt
    <3>5. (n # 0) \in BOOLEAN /\ (n = 1 => n # 0)
      OBVIOUS
    <3> HIDE DEF carry, IsOutcome
    <3>6. /\ IsOutcome(carry, n # 0) /\ (n = 0 => ~(n # 0))
          /\ y = g[n].value /\ y \in Word(w)
          /\ g[n].carry = IF n # 0 THEN carry ELSE old.CF
          /\ n = 1 => carry = g[n].carry
      BY <3>1, <3>2, <3>3, <3>5
    <3> QED
      BY <3>4, <3>5, <3>6
  <2>2. CASE task.op \in CarryRotates
    <3> DEFINE e == ThroughCarryCount(w, n)
               rotated == RotateRing(task.op, w + 1, Ring(Start), e)
               carry == IF e = 0 THEN old.CF ELSE BitAt(w + 1, rotated, w)
    <3>1. /\ y = (IF e = 0 THEN task.value ELSE Wrap(w, rotated))
          /\ IsOutcome(carry, e # 0)
      BY <1>2, <2>2 DEF RotateOutcome, Executed
    <3>2. /\ g[n].value = (IF e = 0 THEN task.value ELSE Wrap(w, rotated))
          /\ g[n].carry = carry /\ g[n].value \in Word(w) /\ (n = 0 => e = 0)
      BY <1>1, <1>2, <2>2, CarryRotateReaches
    <3>3. carry \in BOOLEAN
      <4>1. old.CF \in BOOLEAN
        BY <1>2 DEF StatusFlag
      <4> HIDE DEF rotated, e
      <4>2. BitAt(w + 1, rotated, w) \in BOOLEAN
        BY Zenon DEF BitAt
      <4> QED
        BY <4>1, <4>2
    <3>4. (e # 0) \in BOOLEAN
      OBVIOUS
    <3>5. e = 0 => carry = old.CF
      OBVIOUS
    <3> HIDE DEF carry, e, rotated, IsOutcome
    <3>6. /\ IsOutcome(carry, e # 0) /\ (n = 0 => ~(e # 0))
          /\ y = g[n].value /\ y \in Word(w)
          /\ g[n].carry = IF e # 0 THEN carry ELSE old.CF
          /\ n = 1 => carry = g[n].carry
      BY <3>1, <3>2, <3>5
    <3> QED
      BY <3>3, <3>4, <3>6
  <2> QED
    BY <1>2, <2>1, <2>2
<1>4. PICK carry \in BOOLEAN, defined \in BOOLEAN :
         /\ IsOutcome(carry, defined) /\ (n = 0 => ~defined)
         /\ y = g[n].value /\ y \in Word(w)
         /\ g[n].carry = IF defined THEN carry ELSE old.CF
         /\ n = 1 => carry = g[n].carry
  BY <1>3
<1>5. /\ f.CF = IF defined THEN carry ELSE old.CF
      /\ n # 0 => f.OF = (n = 1 /\ RotateOverflow(task.op, w, y, carry))
      /\ n = 0 => f = old
      /\ \A p \in StatusFlag \ {"CF", "OF"} : f[p] = old[p]
  <2>1. n \in Int
    BY <1>2
  <2>2. f = Over(RotateStatusFlagValues(task.op, w, n, y, carry, defined, old), old)
    BY <1>4
  <2>3. AreRotateFlags(task.op, w, n, y, carry, defined, old, f)
    BY <1>2, <1>4, <2>1, <2>2 DEF AreRotateFlags
  <2> HIDE DEF f, n, y, w, old
  <2> QED
    BY <2>3, RotateFields
<1>6. n = 1 => f.OF = SignChanged
  <2> SUFFICES ASSUME n = 1
               PROVE  f.OF = SignChanged
    OBVIOUS
  <2>1. y = g[1].value /\ carry = g[1].carry /\ g[1].value \in Word(w)
    BY <1>4
  <2>2. RotateOverflow(task.op, w, y, carry) = (Msb(w, task.value) # Msb(w, y))
    BY <1>1, <1>2, <2>1, RotatedOnce
  <2>3. SignChanged = (Msb(w, task.value) # Msb(w, y))
    BY <1>2, <1>4, SignsDiffer DEF SignChanged
  <2>4. f.OF = (TRUE /\ RotateOverflow(task.op, w, y, carry))
    BY <1>5
  <2> QED
    BY <2>2, <2>3, <2>4
<1>7. MovedTimes(n) = g[n] /\ f.CF = g[n].carry /\ y = g[n].value
  BY <1>1, <1>2, <1>4, <1>5
<1> QED
  BY <1>5, <1>6, <1>7 DEF RotatesBitByBit

-----------------------------------------------------------------------------
OutcomeInv == TaskOK /\ ShiftOutcome /\ RotateOutcome

LEMMA CountsAreSmall ==
    ASSUME NEW amount \in Amount
    PROVE  MaskedCount(amount) \in 0 .. 31
<1>1. amount \in 0 .. 255
  BY AmountAssumption
<1> QED
  BY <1>1 DEF MaskedCount

LEMMA ShiftStep ==
    ASSUME TaskOK, NEW amount \in Amount, Shift(amount)
    PROVE  ShiftOutcome' /\ RotateOutcome'
<1> DEFINE n == MaskedCount(amount)
           w == task.width
           shifted == ShiftResult(task.op, w, task.value, n)
           y == IF n = 0 THEN task.value ELSE shifted
           f == ShiftStatusFlagValues(task.op, w, task.value, n, y, task.old)
<1>1. /\ task' = task /\ task.op \in Shifts
      /\ outcome' = [right |-> n, source |-> 0, result |-> y,
                     flags |-> Over(f, task.old)]
  BY DEF Shift, ShiftedBy, Execute
<1>2. n \in 0 .. 31 /\ 0 \in Word(w)
  BY CountsAreSmall, TaskFacts, WidthSizes DEF Word
<1> HIDE DEF n, f
<1>3. /\ outcome'.right = n /\ outcome'.source = 0 /\ outcome'.result = y
      /\ outcome'.flags = Over(f, task.old)
  BY <1>1
<1>4. ShiftOutcome'
  BY <1>1, <1>2, <1>3 DEF ShiftOutcome, f
<1>5. RotateOutcome'
  BY <1>1 DEF RotateOutcome, Executed, Shifts, Rotates, CarryRotates
<1> QED
  BY <1>4, <1>5

LEMMA DoubleShiftStep ==
    ASSUME TaskOK, NEW source \in Operand[task.width], NEW amount \in Amount,
           DoubleShift(source, amount)
    PROVE  ShiftOutcome' /\ RotateOutcome'
<1> DEFINE n == MaskedCount(amount)
           w == task.width
           shifted == DoubleShiftResult(task.op, w, task.value, source, n)
           y == IF n = 0 THEN task.value ELSE shifted
           f == ShiftStatusFlagValues(task.op, w, task.value, n, y, task.old)
<1>1. /\ task' = task /\ task.op \in DoubleShifts
      /\ outcome' = [right |-> n, source |-> source, result |-> y,
                     flags |-> Over(f, task.old)]
  BY DEF DoubleShift, ShiftedBy, Execute
<1>2. n \in 0 .. 31 /\ source \in Word(w)
  BY CountsAreSmall, TaskFacts
<1> HIDE DEF n, f
<1>3. /\ outcome'.right = n /\ outcome'.source = source /\ outcome'.result = y
      /\ outcome'.flags = Over(f, task.old)
  BY <1>1
<1>4. task.op \notin Shifts /\ task.op \notin Rotates \cup CarryRotates
  BY <1>1 DEF Shifts, DoubleShifts, Rotates, CarryRotates
<1>5. ShiftOutcome'
  BY <1>1, <1>2, <1>3, <1>4 DEF ShiftOutcome, f
<1>6. RotateOutcome'
  BY <1>1, <1>4 DEF RotateOutcome, Executed
<1> QED
  BY <1>5, <1>6

LEMMA RotateStep ==
    ASSUME TaskOK, NEW amount \in Amount, Rotate(amount)
    PROVE  ShiftOutcome' /\ RotateOutcome'
<1> DEFINE n == MaskedCount(amount)
           w == task.width
           y == IF task.op = "rol" THEN Rotl(w, task.value, n) ELSE Rotr(w, task.value, n)
           carry == IF task.op = "rol" THEN BitAt(w, y, 0) ELSE Msb(w, y)
           f == RotateStatusFlagValues(task.op, w, n, y, carry, n # 0, task.old)
<1>1. /\ task' = task /\ task.op \in Rotates
      /\ outcome' = [right |-> n, source |-> 0, result |-> y,
                     flags |-> Over(f, task.old)]
  BY DEF Rotate, RotatedBy, Execute
<1>2. n \in 0 .. 31
  BY CountsAreSmall
<1> HIDE DEF n, f
<1>3. /\ outcome'.right = n /\ outcome'.result = y /\ outcome'.flags = Over(f, task.old)
  BY <1>1
<1>4. task.op \notin Shifts \cup DoubleShifts /\ task.op \notin CarryRotates
  BY <1>1 DEF Shifts, DoubleShifts, Rotates, CarryRotates
<1>5. ShiftOutcome'
  BY <1>1, <1>4 DEF ShiftOutcome, Executed
<1>6. RotateOutcome'
  BY <1>1, <1>2, <1>3, <1>4 DEF RotateOutcome, Executed, f
<1> QED
  BY <1>5, <1>6

LEMMA CarryRotateStep ==
    ASSUME TaskOK, NEW amount \in Amount, RotateThroughCarry(amount)
    PROVE  ShiftOutcome' /\ RotateOutcome'
<1> DEFINE n == MaskedCount(amount)
           w == task.width
           e == ThroughCarryCount(w, n)
           rotated == RotateRing(task.op, w + 1, Ring(Start), e)
           y == IF e = 0 THEN task.value ELSE Wrap(w, rotated)
           carry == IF e = 0 THEN task.old.CF ELSE BitAt(w + 1, rotated, w)
           f == RotateStatusFlagValues(task.op, w, n, y, carry, e # 0, task.old)
<1>1. Ring(Start) = task.value + Bit(task.old.CF) * 2^w
  BY DEF Ring, Start
<1>2. /\ task' = task /\ task.op \in CarryRotates
      /\ outcome' = [right |-> n, source |-> 0, result |-> y,
                     flags |-> Over(f, task.old)]
  BY <1>1 DEF RotateThroughCarry, RotatedBy, Execute
<1>3. n \in 0 .. 31
  BY CountsAreSmall
<1>4. Ring(Start)' = Ring(Start)
  BY <1>2 DEF Ring, Start
<1> HIDE DEF n, f
<1>5. /\ outcome'.right = n /\ outcome'.result = y /\ outcome'.flags = Over(f, task.old)
  BY <1>2
<1>6. task.op \notin Shifts \cup DoubleShifts /\ task.op \notin Rotates
  BY <1>2 DEF Shifts, DoubleShifts, Rotates, CarryRotates
<1>7. ShiftOutcome'
  BY <1>2, <1>6 DEF ShiftOutcome, Executed
<1>8. RotateOutcome'
  BY <1>2, <1>3, <1>4, <1>5, <1>6 DEF RotateOutcome, Executed, f
<1> QED
  BY <1>7, <1>8

LEMMA OutcomeInvStep == OutcomeInv /\ [Next]_vars => OutcomeInv'
<1> SUFFICES ASSUME OutcomeInv, [Next]_vars
             PROVE  OutcomeInv'
  OBVIOUS
<1>1. TaskOK
  BY DEF OutcomeInv
<1>2. ASSUME task' = task
      PROVE  TaskOK'
  BY <1>1, <1>2 DEF TaskOK
<1>3. ASSUME task' = task,
             task.op \notin Shifts \cup DoubleShifts \cup Rotates \cup CarryRotates
      PROVE  OutcomeInv'
  BY <1>2, <1>3 DEF OutcomeInv, ShiftOutcome, RotateOutcome, Executed
<1>4. CASE \/ Inc \/ Dec \/ Neg \/ Logic
           \/ \E right \in Operand[task.width] : Add(right) \/ Sub(right)
  <2>1. task' = task /\ task.op \in Binary \cup Unary \cup {"logic"}
    BY <1>4 DEF Inc, Dec, Neg, Logic, Add, Sub, Execute, Binary, Unary
  <2> QED
    BY <1>3, <2>1 DEF Binary, Unary, Shifts, DoubleShifts, Rotates, CarryRotates
<1>5. ASSUME NEW amount \in Amount, Shift(amount)
      PROVE  OutcomeInv'
  <2>1. task' = task
    BY <1>5 DEF Shift, ShiftedBy, Execute
  <2> QED
    BY <1>1, <1>2, <1>5, <2>1, ShiftStep DEF OutcomeInv
<1>6. ASSUME NEW source \in Operand[task.width], NEW amount \in Amount,
             DoubleShift(source, amount)
      PROVE  OutcomeInv'
  <2>1. task' = task
    BY <1>6 DEF DoubleShift, ShiftedBy, Execute
  <2> QED
    BY <1>1, <1>2, <1>6, <2>1, DoubleShiftStep DEF OutcomeInv
<1>7. ASSUME NEW amount \in Amount, Rotate(amount)
      PROVE  OutcomeInv'
  <2>1. task' = task
    BY <1>7 DEF Rotate, RotatedBy, Execute
  <2> QED
    BY <1>1, <1>2, <1>7, <2>1, RotateStep DEF OutcomeInv
<1>8. ASSUME NEW amount \in Amount, RotateThroughCarry(amount)
      PROVE  OutcomeInv'
  <2>1. task' = task
    BY <1>8 DEF RotateThroughCarry, RotatedBy, Execute
  <2> QED
    BY <1>1, <1>2, <1>8, <2>1, CarryRotateStep DEF OutcomeInv
<1>9. CASE UNCHANGED vars
  <2>1. task' = task /\ outcome' = outcome
    BY <1>9 DEF vars
  <2> QED
    BY <1>2, <2>1 DEF OutcomeInv, ShiftOutcome, RotateOutcome, Executed, Ring, Start
<1> QED
  BY <1>4, <1>5, <1>6, <1>7, <1>8, <1>9 DEF Next

LEMMA OutcomeInvariant == Spec => []OutcomeInv
<1>1. Init => OutcomeInv
  <2>1. Init => TaskOK
    BY FlagsInvInit DEF FlagsInv
  <2>2. Init => outcome = NotExecuted
    BY DEF Init
  <2> QED
    BY <2>1, <2>2 DEF OutcomeInv, ShiftOutcome, RotateOutcome, Executed
<1> QED
  BY <1>1, OutcomeInvStep, PTL DEF Spec

(***************************************************************************)
(* For every operand of 8, 16 and 32 bits and every count, a shift (a      *)
(* double shift up to the width) gives the word, the carry and, for a      *)
(* count of one, the overflow of as many shifts by a single bit            *)
(* (shift semantics and core/flags/values.ts).                             *)
(***************************************************************************)
THEOREM ShiftsOfSingleBits == Spec => []ShiftsBitByBit
<1>1. OutcomeInv => ShiftsBitByBit
  BY ShiftsFollow DEF OutcomeInv
<1> QED
  BY <1>1, OutcomeInvariant, PTL

(***************************************************************************)
(* The same of rotations, with the carry as one more bit of the ring or    *)
(* not, for every operand and also for the counts that go round the ring   *)
(* more than once (rotate semantics and core/flags/values.ts).             *)
(***************************************************************************)
THEOREM RotationsOfSingleBits == Spec => []RotatesBitByBit
<1>1. OutcomeInv => RotatesBitByBit
  BY RotatesFollow DEF OutcomeInv
<1> QED
  BY <1>1, OutcomeInvariant, PTL

=============================================================================
