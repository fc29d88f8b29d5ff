------------------------------ MODULE WordBits ------------------------------
(***************************************************************************)
(* The bits of natural numbers, for the bitwise operators of the code and  *)
(* of WebAssembly.  A number is below 2^size, and position 0 is its least  *)
(* significant bit.                                                        *)
(***************************************************************************)
EXTENDS Integers

WordBit(x, i) == (x \div 2^i) % 2

\* The number that has bits[i] at every position i.
FromBits(size, bits) ==
    LET sum[n \in 0 .. size] ==
            IF n = 0 THEN 0 ELSE sum[n - 1] + bits[n - 1] * 2^(n - 1)
    IN  sum[size]

BitAnd(size, x, y) ==
    FromBits(size, [i \in 0 .. size - 1 |-> WordBit(x, i) * WordBit(y, i)])

BitOr(size, x, y) ==
    FromBits(size, [i \in 0 .. size - 1 |-> IF WordBit(x, i) + WordBit(y, i) = 0 THEN 0 ELSE 1])

BitXor(size, x, y) ==
    FromBits(size, [i \in 0 .. size - 1 |-> (WordBit(x, i) + WordBit(y, i)) % 2])

=============================================================================
