---------------------------- MODULE SourceValues ----------------------------
(***************************************************************************)
(* The integer values a function is written with, how an expression is     *)
(* simplified, and what it computes (compiler/function/values/integer/     *)
(* value.ts, simplify.ts, evaluate.ts).  The resolver interns an           *)
(* expression under its operator and the identities of its operands; here  *)
(* an expression is its own identity.                                      *)
(***************************************************************************)
EXTENDS IntegerArithmetic, Sequences

Expression(op, operator, value, width, inputs) ==
    [op |-> op, operator |-> operator, value |-> value, width |-> width, inputs |-> inputs]

SourceValue(index, width)   == Expression("source", "none", index, width, <<>>)
ConstantValue(width, value) == Expression("constant", "none", NormalizeInteger(width, value), width, <<>>)
UnreachableValue(width)     == Expression("unreachable", "none", 0, width, <<>>)

BitValue(p) == ConstantValue(1, IF p THEN 1 ELSE 0)

ConstantOf(v) == IF v.op = "constant" THEN v.value ELSE Undefined

ZeroTestValue(operator, a) == Expression("zeroTest", operator, 0, 1, <<a>>)

-----------------------------------------------------------------------------
(* Simplification of an expression over resolved operands *)

IsOperandA(operator, w, left, right, same) ==
    \/ right = 0 /\ operator \in {"add", "sub", "xor", "or"}
    \/ right = 1 /\ operator \in {"mul", "div_s", "div_u"}
    \/ right = AllBits(w) /\ operator = "and"
    \/ left = AllBits(w) /\ operator = "or"
    \/ same /\ operator \in {"or", "and"}
    \/ right # Undefined /\ operator \in Shifts /\ EffectiveShiftAmount(w, right) = 0
    \/ right # Undefined /\ operator \in Rotates /\ EffectiveRotateAmount(w, right) = 0

IsOperandB(operator, w, left, right) ==
    \/ left = 0 /\ operator \in {"add", "xor", "or"}
    \/ left = 1 /\ operator = "mul"
    \/ left = AllBits(w) /\ operator = "and"
    \/ right = AllBits(w) /\ operator = "or"

\* Slip: a remainder of anything by all ones is zero, signed or not.
IsZeroForAllBits(operator, w, left, right, same) ==
    \/ same /\ operator \in {"sub", "xor"}
    \/ 0 \in {left, right} /\ operator \in {"mul", "and"}
    \/ right \in {1, AllBits(w)} /\ operator \in {"rem_u", "rem_s"}
    \/ left = 0 /\ operator \in Shifts

IsZero(operator, w, left, right, same) ==
    \/ same /\ operator \in {"sub", "xor"}
    \/ 0 \in {left, right} /\ operator \in {"mul", "and"}
    \/ right = 1 /\ operator \in {"rem_u", "rem_s"}
    \/ right = AllBits(w) /\ operator = "rem_s"
    \/ left = 0 /\ operator \in Shifts

SimplifyBinary(e) ==
    LET a     == e.inputs[1]
        b     == e.inputs[2]
        left  == ConstantOf(a)
        right == ConstantOf(b)
        value == EvaluateBinary(e.operator, e.width, left, right)
        same  == a = b
    IN  IF left # Undefined /\ right # Undefined
        THEN IF value = Undefined THEN e ELSE ConstantValue(e.width, value)
        ELSE CASE IsOperandA(e.operator, e.width, left, right, same) -> a
               [] IsOperandB(e.operator, e.width, left, right)       -> b
               [] IsZero(e.operator, e.width, left, right, same)     -> ConstantValue(e.width, 0)
               [] OTHER -> e

SimplifyZeroTest(e) ==
    LET a == e.inputs[1]
    IN  CASE e.operator = "nonzero" /\ a.width = 1 -> a
          [] a.op = "constant" /\ ~(e.operator = "nonzero" /\ a.width = 1) ->
                BitValue(EvaluateZeroTest(e.operator, a.value))
          [] OTHER -> e

\* A comparison with zero is a zero test, which is simplified in turn.
SimplifyComparison(e) ==
    LET a       == e.inputs[1]
        b       == e.inputs[2]
        left    == ConstantOf(a)
        right   == ConstantOf(b)
        against == IF e.operator = "eq" THEN "eqz" ELSE "nonzero"
    IN  IF left # Undefined /\ right # Undefined
        THEN BitValue(EvaluateComparison(e.operator, a.width, left, right))
        ELSE CASE a = b -> BitValue(e.operator \in {"eq", "le_u", "ge_u", "le_s", "ge_s"})
               [] a # b /\ e.operator \in {"eq", "ne"} /\ left = 0 ->
                     SimplifyZeroTest(ZeroTestValue(against, b))
               [] a # b /\ e.operator \in {"eq", "ne"} /\ right = 0 ->
                     SimplifyZeroTest(ZeroTestValue(against, a))
               [] OTHER -> e

SimplifySelect(e) ==
    LET condition == ConstantOf(e.inputs[1])
    IN  CASE e.inputs[2] = e.inputs[3] -> e.inputs[2]
          [] e.inputs[2] # e.inputs[3] /\ condition # Undefined ->
                IF condition = 0 THEN e.inputs[3] ELSE e.inputs[2]
          [] OTHER -> e

\* Operations on one operand are simplified when it is a constant.
SimplifyUnary(e) ==
    LET a == e.inputs[1]
    IN  IF a.op # "constant" THEN e
        ELSE ConstantValue(e.width,
                 CASE e.op = "bitCount" -> EvaluateBitCount(e.operator, e.width, a.value)
                   [] e.op = "extend"   ->
                         EvaluateExtension(e.width, a.width, e.operator = "signed", a.value)
                   [] e.op = "truncate" -> EvaluateTruncation(e.width, a.value))

Simplify(e) ==
    CASE e.op = "binary"   -> SimplifyBinary(e)
      [] e.op = "compare"  -> SimplifyComparison(e)
      [] e.op = "zeroTest" -> SimplifyZeroTest(e)
      [] e.op = "select"   -> SimplifySelect(e)
      [] OTHER             -> SimplifyUnary(e)

-----------------------------------------------------------------------------
(* The expressions that a value's methods make *)

ExtendValue(a, operator, width) ==
    IF width = a.width THEN a ELSE Expression("extend", operator, 0, width, <<a>>)

TruncateValue(a, width) ==
    IF width = a.width THEN a ELSE Expression("truncate", "none", 0, width, <<a>>)

\* A count is a word; a narrow one is extended.
ShiftCountValue(count) == ExtendValue(count, "unsigned", I32)

BinaryValue(operator, a, b) ==
    LET right == IF operator \in Shifts \cup Rotates THEN ShiftCountValue(b) ELSE b
    IN  Expression("binary", operator, 0, a.width, <<a, right>>)

CompareValue(operator, a, b) == Expression("compare", operator, 0, 1, <<a, b>>)

BitCountValue(operator, a) == Expression("bitCount", operator, 0, a.width, <<a>>)

SelectValue(condition, a, b) == Expression("select", "none", 0, a.width, <<condition, a, b>>)

-----------------------------------------------------------------------------
(* The value of an expression whose operands have the given values, where  *)
(* the sources carry the given words                                       *)

Bit(p) == IF p THEN 1 ELSE 0

\* Nothing is undefined about the operands.
Operation(e, values) ==
    CASE e.op = "binary"   -> EvaluateBinary(e.operator, e.width, values[1], values[2])
      [] e.op = "compare"  ->
            Bit(EvaluateComparison(e.operator, e.inputs[1].width, values[1], values[2]))
      [] e.op = "zeroTest" -> Bit(EvaluateZeroTest(e.operator, values[1]))
      [] e.op = "bitCount" -> EvaluateBitCount(e.operator, e.width, values[1])
      [] e.op = "extend"   ->
            EvaluateExtension(e.width, e.inputs[1].width, e.operator = "signed", values[1])
      [] e.op = "truncate" -> EvaluateTruncation(e.width, values[1])
      [] e.op = "select"   -> IF values[1] = 1 THEN values[2] ELSE values[3]

Evaluate(e, values, words) ==
    CASE e.op = "source"      -> NormalizeInteger(e.width, words[e.value])
      [] e.op = "constant"    -> e.value
      [] e.op = "unreachable" -> Undefined
      [] e.op \notin {"source", "constant", "unreachable"} ->
            IF \E i \in DOMAIN values : values[i] = Undefined THEN Undefined
            ELSE Operation(e, values)

=============================================================================
