-------------------------- MODULE IntegerArithmetic --------------------------
(***************************************************************************)
(* What the operators on integers compute when their operands are known    *)
(* (compiler/function/values/integer/evaluate.ts, width.ts).  The widths   *)
(* are scaled down: I32 and I64 stand for 32 and 64, Narrow for 1, 8, 16.  *)
(***************************************************************************)
EXTENDS WordBits, FiniteSets

CONSTANTS Narrow, I32, I64

ASSUME WidthAssumption ==
    /\ Narrow \subseteq 1 .. I32 - 1
    /\ \E n \in 2 .. 5 : I32 = 2^n
    /\ I64 = 2 * I32

Widths == Narrow \cup {I32, I64}

\* The result of an evaluation that has none.
Undefined == -1

Arithmetic == {"add", "sub", "mul", "div_s", "div_u", "rem_s", "rem_u"}
Shifts     == {"shl", "shr_s", "shr_u"}
Rotates    == {"rotl", "rotr"}
BinaryOperators == Arithmetic \cup Shifts \cup Rotates \cup {"xor", "or", "and"}

BitCounts == {"popcnt", "ctz", "clz"}

SignedComparisons == {"lt_s", "le_s", "gt_s", "ge_s"}
Comparisons == SignedComparisons \cup {"eq", "ne", "lt_u", "le_u", "gt_u", "ge_u"}

ZeroTests == {"eqz", "nonzero"}

NormalizeInteger(w, x) == x % 2^w

SignedInteger(w, x) == IF x % 2^w < 2^(w - 1) THEN x % 2^w ELSE (x % 2^w) - 2^w

AllBits(w) == 2^w - 1

\* Zero occupies no bit.
BitLength(x) == CHOOSE n \in 0 .. I64 : x < 2^n /\ (n = 0 \/ 2^(n - 1) <= x)

TypeWidth(w) == IF w = I64 THEN I64 ELSE I32

\* A narrow value is shifted as a word is.
EffectiveShiftAmount(w, x) == x % TypeWidth(w)

EffectiveRotateAmount(w, x) == x % w

ShiftLeft(w, x, n)  == IF n >= w THEN 0 ELSE (x % 2^(w - n)) * 2^n

Magnitude(x) == IF x < 0 THEN -x ELSE x

\* Division of signed integers rounds towards zero.
Quotient(x, y) ==
    LET q == Magnitude(x) \div Magnitude(y) IN IF (x < 0) = (y < 0) THEN q ELSE -q

Remainder(x, y) == x - y * Quotient(x, y)

RotateLeft(w, x, n) == ShiftLeft(w, x, n) + (x \div 2^(w - n))

\* The quotient of the least word by -1 does not fit; that of a narrow value wraps.
EvaluateSignedDivision(w, x, y) ==
    IF y = 0 \/ (w >= I32 /\ y = -1 /\ x = -(2^(w - 1))) THEN Undefined
    ELSE NormalizeInteger(w, Quotient(x, y))

EvaluateBinary(operator, w, x, y) ==
    LET signedX == SignedInteger(w, x)
        signedY == SignedInteger(w, y)
        count   == EffectiveShiftAmount(w, y)
        turn    == EffectiveRotateAmount(w, y)
    IN  CASE operator = "add"   -> NormalizeInteger(w, x + y)
          [] operator = "sub"   -> NormalizeInteger(w, x - y)
          [] operator = "mul"   -> NormalizeInteger(w, x * y)
          [] operator = "div_s" -> EvaluateSignedDivision(w, signedX, signedY)
          [] operator = "div_u" -> IF y = 0 THEN Undefined ELSE x \div y
          [] operator = "rem_s" -> IF signedY = 0 THEN Undefined
                                   ELSE NormalizeInteger(w, Remainder(signedX, signedY))
          [] operator = "rem_u" -> IF y = 0 THEN Undefined ELSE x % y
          [] operator = "and"   -> BitAnd(w, x, y)
          [] operator = "or"    -> BitOr(w, x, y)
          [] operator = "xor"   -> BitXor(w, x, y)
          [] operator = "shl"   -> ShiftLeft(w, x, count)
          [] operator = "shr_s" -> NormalizeInteger(w, signedX \div 2^count)
          [] operator = "shr_u" -> x \div 2^count
          [] operator = "rotl"  -> RotateLeft(w, x, turn)
          [] operator = "rotr"  -> RotateLeft(w, x, (w - turn) % w)

EvaluateComparison(operator, w, x, y) ==
    LET left  == IF operator \in SignedComparisons THEN SignedInteger(w, x) ELSE x
        right == IF operator \in SignedComparisons THEN SignedInteger(w, y) ELSE y
    IN  CASE operator = "eq" -> left = right
          [] operator = "ne" -> left # right
          [] operator \in {"lt_u", "lt_s"} -> left < right
          [] operator \in {"le_u", "le_s"} -> left <= right
          [] operator \in {"gt_u", "gt_s"} -> left > right
          [] operator \in {"ge_u", "ge_s"} -> left >= right

EvaluateZeroTest(operator, x) == (operator = "eqz") = (x = 0)

EvaluateBitCount(operator, w, x) ==
    LET ones == {i \in 0 .. w - 1 : (x \div 2^i) % 2 = 1}
    IN  CASE operator = "popcnt" -> Cardinality(ones)
          [] operator = "ctz"    -> IF x = 0 THEN w ELSE CHOOSE i \in ones : \A j \in ones : i <= j
          [] operator = "clz"    -> w - BitLength(x)

EvaluateExtension(w, sourceWidth, signed, x) ==
    NormalizeInteger(w, IF signed THEN SignedInteger(sourceWidth, x) ELSE x)

EvaluateTruncation(w, x) == NormalizeInteger(w, x)

=============================================================================
