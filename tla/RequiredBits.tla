---------------------------- MODULE RequiredBits ----------------------------
(***************************************************************************)
(* How many bits the words of a WebAssembly value may need, read as        *)
(* unsigned and as two's complement                                        *)
(* (compiler/wasm/function/values/integer/required-bits.ts).               *)
(***************************************************************************)
EXTENDS IntegerArithmetic, FiniteSetsExt

Bits(unsigned, signed) == [unsigned |-> unsigned, signed |-> signed]

Least(x, y)    == IF x < y THEN x ELSE y
Greatest(x, y) == IF x > y THEN x ELSE y

UnknownRequiredBits(type) == Bits(type, type)

\* Slip: the two bounds are clamped on their own.
ClampSeparately(type, unsigned, signed) ==
    Bits(Least(type, Greatest(1, unsigned)), Least(type, Greatest(1, signed)))

\* Whatever fits in n bits unsigned fits in n + 1 signed.
ClampRequiredBits(type, unsigned, signed) ==
    LET clamped == Least(type, Greatest(1, unsigned))
    IN  Bits(clamped, Least(Least(type, Greatest(1, signed)), clamped + 1))

JoinRequiredBits(type, joined) ==
    IF joined = {} THEN UnknownRequiredBits(type)
    ELSE Bits(Max({b.unsigned : b \in joined}), Max({b.signed : b \in joined}))

ZeroExtendedRequiredBits(type, n) == ClampRequiredBits(type, n, type)

SignExtendedRequiredBits(type, n) == ClampRequiredBits(type, type, n)

ConstantRequiredBits(type, word) ==
    LET signed == SignedInteger(type, word)
    IN  Bits(Greatest(1, BitLength(word)),
             Least(type, BitLength(IF signed < 0 THEN -signed - 1 ELSE signed) + 1))

\* Slip: a value that may use the sign bit is taken for non-negative.
ExtendRequiredBitsAtTop(type, sourceWidth, source, extension) ==
    CASE extension = "zero" ->
            ZeroExtendedRequiredBits(type, Least(sourceWidth, source.unsigned))
      [] extension = "sign" /\ source.unsigned <= sourceWidth ->
            ClampRequiredBits(type, source.unsigned, source.signed)
      [] extension = "sign" /\ source.unsigned > sourceWidth ->
            SignExtendedRequiredBits(type, Least(sourceWidth, source.signed))

ExtendRequiredBits(type, sourceWidth, source, extension) ==
    CASE extension = "zero" ->
            ZeroExtendedRequiredBits(type, Least(sourceWidth, source.unsigned))
      [] extension = "sign" /\ source.unsigned < sourceWidth ->
            ClampRequiredBits(type, source.unsigned, source.signed)
      [] extension = "sign" /\ source.unsigned >= sourceWidth ->
            SignExtendedRequiredBits(type, Least(sourceWidth, source.signed))

TruncateRequiredBits(type, source) == ClampRequiredBits(type, source.unsigned, source.signed)

\* rightConstant is the word of a constant right operand, or Undefined.
BinaryRequiredBits(type, operator, left, right, rightConstant) ==
    LET shift    == rightConstant % type
        constant == rightConstant # Undefined
        signed   == Greatest(left.signed, right.signed)
    IN  CASE operator \in {"xor", "or"} ->
                ClampRequiredBits(type, Greatest(left.unsigned, right.unsigned), signed)
          [] operator = "and" ->
                ClampRequiredBits(type, Least(left.unsigned, right.unsigned), signed)
          [] operator = "shl" /\ constant ->
                ZeroExtendedRequiredBits(type, left.unsigned + shift)
          [] operator = "shr_u" /\ constant ->
                ZeroExtendedRequiredBits(type, Greatest(1, left.unsigned - shift))
          [] operator = "shr_u" /\ ~constant -> ClampRequiredBits(type, left.unsigned, type)
          [] operator = "div_u" -> ZeroExtendedRequiredBits(type, left.unsigned)
          [] operator = "rem_u" -> ZeroExtendedRequiredBits(type, right.unsigned)
          [] OTHER -> UnknownRequiredBits(type)

\* The sign extension of a narrow value inside a word names the width it extends.
UnaryRequiredBits(type, operator, extendedWidth, source) ==
    IF operator = "extend_s" THEN ExtendRequiredBits(I32, extendedWidth, source, "sign")
    ELSE ZeroExtendedRequiredBits(type, BitLength(type))

ConversionRequiredBits(operator, source) ==
    CASE operator = "wrap_i64"     -> TruncateRequiredBits(I32, source)
      [] operator = "extend_i32_u" -> ExtendRequiredBits(I64, I32, source, "zero")
      [] operator = "extend_i32_s" -> ExtendRequiredBits(I64, I32, source, "sign")

\* The word needs no more bits than that.
Fits(word, type, bits) ==
    /\ word < 2^bits.unsigned
    /\ LET signed == SignedInteger(type, word)
       IN  -(2^(bits.signed - 1)) <= signed /\ signed < 2^(bits.signed - 1)

=============================================================================
