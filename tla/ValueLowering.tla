---------------------------- MODULE ValueLowering ----------------------------
(***************************************************************************)
(* Lowering of integer values to WebAssembly words                         *)
(* (compiler/wasm/lower/values.ts, integer/operations.ts,                  *)
(* integer/low-bits.ts).                                                   *)
(*                                                                         *)
(* A narrow integer lives in a word whose upper bits may be anything.  The *)
(* lowerer keeps, per value, that base and the normalized views there are  *)
(* so far, and asks for a normalized view, or for no more than some low    *)
(* bits, only where the difference shows.  What exists when a value is     *)
(* lowered depends on what was asked for before.                           *)
(***************************************************************************)
EXTENDS ValueResolver, WasmValues, TLC

VARIABLES
    lowered,    \* base and views of each value that was asked for
    lowBits,    \* the nodes of values of which some low bits were asked for
    uses,       \* the nodes that conditions and stores were given
    demands     \* how many values were asked for

vars == <<resolverVars, lowered, lowBits, uses, demands>>

\* The lowerer's tables, threaded through the lowering of one value.
Tables == [lowered |-> lowered, low |-> lowBits]

Base(t, v) == t.lowered[v].base

View(t, v, view) == IF v.width >= I32 THEN Base(t, v) ELSE t.lowered[v][view]

\* The views that the base of a value is already.
LoweringFromBase(v, base, normalizedAs) ==
    LET Is(view) == /\ v.width < I32
                    /\ v.op = "unreachable" \/ base.bits[view] <= v.width \/ view = normalizedAs
    IN  [base     |-> base,
         unsigned |-> IF Is("unsigned") THEN base ELSE NoNode,
         signed   |-> IF Is("signed") THEN base ELSE NoNode]

WithBase(t, v, base, normalizedAs) ==
    [t EXCEPT !.lowered = @ @@ (v :> LoweringFromBase(v, base, normalizedAs))]

\* A bit has no instruction that extends it.
NormalizeNode(width, node, view) ==
    LET bit == BinaryNode("and", node, ConstantNode(I32, AllBits(width)))
    IN  CASE view = "unsigned" -> bit
          [] view = "signed" /\ width = 1 -> BinaryNode("sub", ConstantNode(I32, 0), bit)
          [] view = "signed" /\ width > 1 -> UnaryNode("extend_s", width, node)

LogOf(type) == CHOOSE n \in 1 .. type : 2^n = type

\* Extensions and truncations that leave the bits of a count alone are left out.
RECURSIVE ShiftCountSource(_, _)
ShiftCountSource(v, bits) ==
    IF v.op \in {"extend", "truncate"} /\ v.inputs[1].width >= bits
    THEN ShiftCountSource(v.inputs[1], bits)
    ELSE v

\* Lowering an operation lowers its operands first; its node depends on the tables then.
RECURSIVE Lower(_, _), LowerLowBits(_, _, _)

WithView(u, v, view) ==
    IF v.width >= I32 \/ u.lowered[v][view] # NoNode THEN u
    ELSE [u EXCEPT !.lowered[v][view] = NormalizeNode(v.width, Base(u, v), view)]

Normalize(t, v, view) == WithView(Lower(t, v), v, view)

NormalizeBoth(t, v, w, view) == Normalize(Normalize(t, v, view), w, view)

LowerBoth(t, v, w) == Lower(Lower(t, v), w)

LowerShiftCount(t, v, type) == Lower(t, ShiftCountSource(v, LogOf(type)))

ShiftCountNode(u, v, type) ==
    LET count == Base(u, ShiftCountSource(v, LogOf(type)))
    IN  IF count.type = type THEN count
        ELSE ConvertNode(IF type = I64 THEN "extend_i32_u" ELSE "wrap_i64", count)

-----------------------------------------------------------------------------
(* Low bits *)

\* The node that carries the low n bits of v once they have been lowered; of
\* no bits at all, the base.
LowBitsOf(t, v, n) == IF n \in {0, v.width} THEN Base(t, v) ELSE t.low[<<v, n>>]

\* How many low bits of its input a mask lets through, of the n that are wanted.
MaskedBits(constant, n) == BitLength(constant % 2^n)

KeepsAll(constant, n) == constant % 2^n = 2^n - 1

WithMask(u, input, mask, constant) ==
    IF KeepsAll(constant, input.bits.unsigned) THEN u ELSE Lower(u, mask)

LowerMasked(u, v, mask, constant, bits) == WithMask(u, LowBitsOf(u, v, bits), mask, constant)

LowerAndConstant(t, v, mask, constant, n) ==
    LET bits == MaskedBits(constant, n)
    IN  CASE KeepsAll(constant, n) -> LowerLowBits(t, v, n)
          [] ~KeepsAll(constant, n) /\ bits = 0 -> LowerMasked(Lower(t, v), v, mask, constant, 0)
          [] ~KeepsAll(constant, n) /\ bits > 0 ->
                LowerMasked(LowerLowBits(t, v, bits), v, mask, constant, bits)

AndConstantNode(u, v, mask, constant, n, maskOnRight) ==
    LET input == LowBitsOf(u, v, MaskedBits(constant, n))
    IN  CASE KeepsAll(constant, n) -> LowBitsOf(u, v, n)
          [] ~KeepsAll(constant, n) /\ KeepsAll(constant, input.bits.unsigned) -> input
          [] OTHER -> IF maskOnRight THEN BinaryNode("and", input, Base(u, mask))
                      ELSE BinaryNode("and", Base(u, mask), input)

LowerAnd(t, a, b, n) ==
    LET left  == ConstantOf(a)
        right == ConstantOf(b)
    IN  CASE left # Undefined /\ right = Undefined -> LowerAndConstant(t, b, a, left, n)
          [] right # Undefined /\ left = Undefined -> LowerAndConstant(t, a, b, right, n)
          [] (left = Undefined) = (right = Undefined) -> LowerLowBits(LowerLowBits(t, a, n), b, n)

AndNode(u, a, b, n) ==
    LET left  == ConstantOf(a)
        right == ConstantOf(b)
    IN  CASE left # Undefined /\ right = Undefined -> AndConstantNode(u, b, a, left, n, FALSE)
          [] right # Undefined /\ left = Undefined -> AndConstantNode(u, a, b, right, n, TRUE)
          [] (left = Undefined) = (right = Undefined) ->
                BinaryNode("and", LowBitsOf(u, a, n), LowBitsOf(u, b, n))

ShiftedBy(v) == EffectiveShiftAmount(v.width, ConstantOf(v.inputs[2]))

\* Slip: the bits shifted in from above are not asked for.
BitsBeforeShiftAsFew(v, n) == n

\* The bits of its first operand that n bits of a right shift by a constant depend on.
BitsBeforeShift(v, n) == n + ShiftedBy(v)

IsConstantShift(v) ==
    v.op = "binary" /\ v.operator = "shr_u" /\ ConstantOf(v.inputs[2]) # Undefined

\* What is made of an operation when n of its bits are wanted.
ReducedAs(v, n) ==
    CASE v.op = "binary" /\ v.operator = "and"        -> "and"
      [] IsConstantShift(v) /\ ShiftedBy(v) = 0       -> "operand"
      [] /\ IsConstantShift(v) /\ ShiftedBy(v) > 0
         /\ BitsBeforeShift(v, n) <= v.width          -> "shift"
      [] OTHER                                        -> "whole"

LowerReduced(t, v, n) ==
    CASE ReducedAs(v, n) = "and"     -> LowerAnd(t, v.inputs[1], v.inputs[2], n)
      [] ReducedAs(v, n) = "operand" -> LowerLowBits(t, v.inputs[1], n)
      [] ReducedAs(v, n) = "shift"   ->
            LowerShiftCount(LowerLowBits(t, v.inputs[1], BitsBeforeShift(v, n)),
                            v.inputs[2], TypeWidth(v.width))
      [] ReducedAs(v, n) = "whole"   -> Lower(t, v)

ReducedNode(u, v, n) ==
    CASE ReducedAs(v, n) = "and"     -> AndNode(u, v.inputs[1], v.inputs[2], n)
      [] ReducedAs(v, n) = "operand" -> LowBitsOf(u, v.inputs[1], n)
      [] ReducedAs(v, n) = "shift"   ->
            BinaryNode("shr_u", LowBitsOf(u, v.inputs[1], BitsBeforeShift(v, n)),
                                ShiftCountNode(u, v.inputs[2], TypeWidth(v.width)))
      [] ReducedAs(v, n) = "whole"   -> Base(u, v)

WithLowBits(u, v, n) == [u EXCEPT !.low = @ @@ (<<v, n>> :> ReducedNode(u, v, n))]

LowerLowBits(t, v, n) ==
    CASE n = v.width -> Lower(t, v)
      [] n < v.width /\ <<v, n>> \in DOMAIN t.low -> t
      [] n < v.width /\ <<v, n>> \notin DOMAIN t.low -> WithLowBits(LowerReduced(t, v, n), v, n)

-----------------------------------------------------------------------------
(* Operations: the tables after lowering the operands, and the node then *)

NarrowRotate(operator, source, amount, width) ==
    LET masked     == BinaryNode("and", amount, ConstantNode(I32, width - 1))
        complement == BinaryNode("sub", ConstantNode(I32, width), masked)
    IN  BinaryNode("or",
            BinaryNode("shl", source, IF operator = "rotl" THEN masked ELSE complement),
            BinaryNode("shr_u", source, IF operator = "rotl" THEN complement ELSE masked))

\* Slip: the quotient of two signed views is taken for a signed view.
NormalizedAsOperands(operator) ==
    CASE operator \in {"div_u", "rem_u", "shr_u"} -> "unsigned"
      [] operator \in {"div_s", "rem_s", "shr_s"} -> "signed"
      [] OTHER                                    -> "none"

\* The view in which the operation's result comes out normalized.
NormalizedAs(operator) ==
    CASE operator \in {"div_u", "rem_u", "shr_u"} -> "unsigned"
      [] operator \in {"rem_s", "shr_s"}          -> "signed"
      [] OTHER                                    -> "none"

IsNarrowRotate(v) == v.operator \in Rotates /\ v.width < I32

\* The view the operation needs its operands in, but for a shift count.
OperandView(v) ==
    CASE v.operator \in {"div_u", "rem_u", "shr_u"} \/ IsNarrowRotate(v) -> "unsigned"
      [] v.operator \in {"div_s", "rem_s", "shr_s"} -> "signed"
      [] OTHER -> "none"

LowerAs(t, v, view) == IF view = "none" THEN Lower(t, v) ELSE Normalize(t, v, view)
NodeAs(u, v, view)  == IF view = "none" THEN Base(u, v) ELSE View(u, v, view)

LowerOperands(t, v) ==
    CASE v.operator \in Shifts \cup Rotates ->
            LowerShiftCount(LowerAs(t, v.inputs[1], OperandView(v)), v.inputs[2], TypeWidth(v.width))
      [] v.operator = "and" -> LowerAnd(t, v.inputs[1], v.inputs[2], v.width)
      [] v.operator \notin Shifts \cup Rotates \cup {"and"} ->
            LowerAs(LowerAs(t, v.inputs[1], OperandView(v)), v.inputs[2], OperandView(v))

OperationNode(u, v) ==
    LET left  == NodeAs(u, v.inputs[1], OperandView(v))
        count == ShiftCountNode(u, v.inputs[2], TypeWidth(v.width))
    IN  CASE IsNarrowRotate(v) -> NarrowRotate(v.operator, left, count, v.width)
          [] v.operator \in Shifts \cup Rotates /\ ~IsNarrowRotate(v) ->
                BinaryNode(v.operator, left, count)
          [] v.operator = "and" -> AndNode(u, v.inputs[1], v.inputs[2], v.width)
          [] v.operator \notin Shifts \cup Rotates \cup {"and"} ->
                BinaryNode(v.operator, left, NodeAs(u, v.inputs[2], OperandView(v)))

WithOperation(u, v) == WithBase(u, v, OperationNode(u, v), NormalizedAs(v.operator))

LowerBinary(t, v) == WithOperation(LowerOperands(t, v), v)

ZeroFilled(u, v) == Base(u, v).bits.unsigned <= v.width

\* Equal narrow values may have unequal words: one that is known to be zero
\* above its width lets the words be compared once the other is normalized.
WithOtherFilled(u, a, b) ==
    CASE ~ZeroFilled(u, a) /\ ZeroFilled(u, b) -> WithView(u, a, "unsigned")
      [] ZeroFilled(u, a) /\ ~ZeroFilled(u, b) -> WithView(u, b, "unsigned")
      [] ZeroFilled(u, a) = ZeroFilled(u, b)   -> u

NarrowEqualityNode(u, operator, a, b) ==
    LET Filled(v)  == IF ZeroFilled(u, v) THEN Base(u, v) ELSE View(u, v, "unsigned")
        difference == BinaryNode("xor", Base(u, a), Base(u, b))
        equal      == EqzNode(NormalizeNode(a.width, difference, "signed"))
    IN  CASE ZeroFilled(u, a) \/ ZeroFilled(u, b) -> CompareNode(operator, Filled(a), Filled(b))
          [] ~ZeroFilled(u, a) /\ ~ZeroFilled(u, b) ->
                IF operator = "eq" THEN equal ELSE EqzNode(equal)

ComparedView(operator) == IF operator \in SignedComparisons THEN "signed" ELSE "unsigned"

LowerCompared(t, operator, a, b) ==
    CASE operator \in {"eq", "ne"} /\ a.width < I32 -> WithOtherFilled(LowerBoth(t, a, b), a, b)
      [] operator \in {"eq", "ne"} /\ a.width >= I32 -> LowerBoth(t, a, b)
      [] operator \notin {"eq", "ne"} -> NormalizeBoth(t, a, b, ComparedView(operator))

ComparisonNode(u, operator, a, b) ==
    LET view == ComparedView(operator)
    IN  IF operator \in {"eq", "ne"} /\ a.width < I32 THEN NarrowEqualityNode(u, operator, a, b)
        ELSE CompareNode(operator, View(u, a, view), View(u, b, view))

WithComparison(u, v) ==
    WithBase(u, v, ComparisonNode(u, v.operator, v.inputs[1], v.inputs[2]), "none")

LowerComparison(t, v) ==
    WithComparison(LowerCompared(t, v.operator, v.inputs[1], v.inputs[2]), v)

\* A narrow value is counted with nothing above it, or with a one just above it.
BitCountNode(u, operator, a) ==
    LET Count(node) == UnaryNode(operator, 0, node)
    IN  CASE a.width >= I32 -> Count(Base(u, a))
          [] a.width < I32 /\ operator = "popcnt" -> Count(View(u, a, "unsigned"))
          [] a.width < I32 /\ operator = "ctz" ->
                Count(BinaryNode("or", Base(u, a), ConstantNode(I32, 2^a.width)))
          [] a.width < I32 /\ operator = "clz" ->
                BinaryNode("sub", Count(View(u, a, "unsigned")), ConstantNode(I32, I32 - a.width))

WithBitCount(u, v) ==
    WithBase(u, v, BitCountNode(u, v.operator, v.inputs[1]),
             IF v.inputs[1].width < I32 THEN "unsigned" ELSE "none")

LowerBitCount(t, v) ==
    WithBitCount(LowerAs(t, v.inputs[1], IF v.operator = "ctz" THEN "none" ELSE "unsigned"), v)

WithTruncation(u, v) ==
    LET node == LowBitsOf(u, v.inputs[1], v.width)
    IN  WithBase(u, v, IF v.inputs[1].width < I64 THEN node ELSE ConvertNode("wrap_i64", node),
                 "none")

LowerTruncation(t, v) == WithTruncation(LowerLowBits(t, v.inputs[1], v.width), v)

WithExtension(u, v) ==
    LET node == View(u, v.inputs[1], v.operator)
    IN  IF v.width < I64 THEN WithBase(u, v, node, v.operator)
        ELSE WithBase(u, v, ConvertNode(IF v.operator = "signed" THEN "extend_i32_s"
                                        ELSE "extend_i32_u", node), "none")

LowerExtension(t, v) == WithExtension(Normalize(t, v.inputs[1], v.operator), v)

-----------------------------------------------------------------------------
(* Zero tests and conditions *)

Existing(u, v) ==
    IF u.lowered[v].signed # NoNode THEN u.lowered[v].signed ELSE u.lowered[v].unsigned

\* Either view of a narrow value tells whether it is zero; one that is there is taken.
WithSomeView(u, v) ==
    IF v.width >= I32 \/ Existing(u, v) # NoNode THEN u
    ELSE WithView(u, v, IF v.width = 1 THEN "unsigned" ELSE "signed")

LowerZeroTestOperand(t, v) == WithSomeView(Lower(t, v), v)

ZeroTestOperand(u, v) == IF v.width >= I32 THEN Base(u, v) ELSE Existing(u, v)

ZeroTestNode(operator, operand) ==
    CASE operator = "eqz" -> EqzNode(operand)
      [] /\ operator = "nonzero"
         /\ operand.type = I32 /\ operand.bits.unsigned <= 1 -> operand
      [] /\ operator = "nonzero"
         /\ ~(operand.type = I32 /\ operand.bits.unsigned <= 1) -> EqzNode(EqzNode(operand))

WithZeroTest(u, v) ==
    WithBase(u, v, ZeroTestNode(v.operator, ZeroTestOperand(u, v.inputs[1])), "none")

LowerZeroTest(t, v) == WithZeroTest(LowerZeroTestOperand(t, v.inputs[1]), v)

LowerCondition(t, v) ==
    CASE v.op = "zeroTest" /\ v.operator = "eqz"     -> LowerZeroTestOperand(t, v.inputs[1])
      [] v.op = "zeroTest" /\ v.operator = "nonzero" -> Normalize(t, v.inputs[1], "unsigned")
      [] v.op # "zeroTest"                           -> Normalize(t, v, "unsigned")

\* Slip: any word that is not zero will do.
TestedBase(u, v) == Base(u, v)

TestedNode(u, v) == View(u, v, "unsigned")

\* An i32 that is not zero exactly when the bit is set.
Condition(u, v) ==
    CASE v.op = "zeroTest" /\ v.operator = "eqz" -> EqzNode(ZeroTestOperand(u, v.inputs[1]))
      [] v.op = "zeroTest" /\ v.operator = "nonzero" ->
            IF v.inputs[1].width = I64 THEN EqzNode(EqzNode(Base(u, v.inputs[1])))
            ELSE TestedNode(u, v.inputs[1])
      [] v.op # "zeroTest" -> TestedNode(u, v)

WithSelect(u, v, condition) ==
    WithBase(u, v, SelectNode(condition, Base(u, v.inputs[2]), Base(u, v.inputs[3])), "none")

LowerSelected(u, v) ==
    WithSelect(LowerBoth(u, v.inputs[2], v.inputs[3]), v, Condition(u, v.inputs[1]))

LowerSelect(t, v) == LowerSelected(LowerCondition(t, v.inputs[1]), v)

\* Narrow parameters arrive zero filled.  Producers have been bound.
LowerParameter(t, v) ==
    LET narrow == v.width < I32
        type   == TypeWidth(v.width)
    IN  WithBase(t, v,
            ParameterNode(v.value, type, IF narrow THEN ZeroExtendedRequiredBits(type, v.width)
                                         ELSE UnknownRequiredBits(type)),
            IF narrow THEN "unsigned" ELSE "none")

Lower(t, v) ==
    IF v \in DOMAIN t.lowered THEN t
    ELSE CASE v.op = "source"      -> LowerParameter(t, v)
           [] v.op = "constant"    ->
                 WithBase(t, v, ConstantNode(TypeWidth(v.width), v.value), "none")
           [] v.op = "unreachable" -> WithBase(t, v, UnreachableNode(TypeWidth(v.width)), "none")
           [] v.op = "binary"      -> LowerBinary(t, v)
           [] v.op = "compare"     -> LowerComparison(t, v)
           [] v.op = "truncate"    -> LowerTruncation(t, v)
           [] v.op = "extend"      -> LowerExtension(t, v)
           [] v.op = "bitCount"    -> LowerBitCount(t, v)
           [] v.op = "zeroTest"    -> LowerZeroTest(t, v)
           [] v.op = "select"      -> LowerSelect(t, v)

-----------------------------------------------------------------------------
(* Functions that are lowered *)

ConvertRepresentation(node, type) ==
    CASE node.type = type -> node
      [] node.type # type -> ConvertNode(IF type = I32 THEN "wrap_i64" ELSE "extend_i32_u", node)

\* A value in a storage wider than itself is loaded in the type of the storage.
BoundNode(i) ==
    LET source == family.sources[i]
        type   == TypeWidth(source.width)
        carrier == IF source.role = "carrier" THEN I64 ELSE type
        output == ProducerOutputNode(i, carrier, ZeroExtendedRequiredBits(carrier, source.unsigned))
    IN  ConvertRepresentation(output, type)

Bind(t, i) == WithBase(t, SourceOf(i), BoundNode(i), "none")

Init ==
    /\ ResolverInit
    /\ LET producers == {i \in DOMAIN family.sources : family.sources[i].role # "parameter"}
       IN  lowered = FoldSet(LAMBDA i, t : Bind(t, i), [lowered |-> << >>], producers).lowered
    /\ lowBits = <<>>
    /\ uses = {}
    /\ demands = 0

\* A function is written before it is lowered.
Write == demands = 0 /\ ResolverNext /\ UNCHANGED <<lowered, lowBits, uses, demands>>

Ask(tables, used) ==
    /\ demands < family.demands
    /\ lowered' = tables.lowered
    /\ lowBits' = tables.low
    /\ uses' = uses \cup used
    /\ demands' = demands + 1
    /\ UNCHANGED resolverVars

\* Any values are asked for first, and in the end the one that was built last.
Asked ==
    {resolution[written[i]] : i \in IF demands + 1 < family.demands THEN DOMAIN written
                                 ELSE DOMAIN written \cap {Len(written)}}

\* An operand of which no more than the low bits matter: a result, a variable, a loop input.
AskValue == \E v \in Asked : Ask(Lower(Tables, v), {})

\* An argument of a call or a result of the function.
AskView == \E v \in Asked : v.width < I32 /\ Ask(Normalize(Tables, v, "unsigned"), {})

Use(as, v, width, node) == [as |-> as, value |-> v, width |-> width, node |-> node]

AskConditionOf(u, v) == Ask(u, {Use("condition", v, 1, Condition(u, v))})

AskCondition == \E v \in Asked : v.width = 1 /\ AskConditionOf(LowerCondition(Tables, v), v)

\* A value is stored zero filled where the storage is wider than it is.
StoredView(v, storage) == IF v.width < storage THEN "unsigned" ELSE "none"

StoredNode(u, v, storage) ==
    ConvertRepresentation(NodeAs(u, v, StoredView(v, storage)), TypeWidth(storage))

AskStoreOf(u, v, storage) == Ask(u, {Use("store", v, storage, StoredNode(u, v, storage))})

AskStore ==
    \E v \in Asked, storage \in family.storages :
        v.width <= storage /\ AskStoreOf(LowerAs(Tables, v, StoredView(v, storage)), v, storage)

Next ==
    \/ Write \/ AskValue \/ AskView \/ AskCondition \/ AskStore

Spec == Init /\ [][Next]_vars

-----------------------------------------------------------------------------
(* Properties.  The tables only grow, so they are looked at when complete. *)

Finished == demands = family.demands

\* The word of a node when the sources carry the given words.
RECURSIVE WordOf(_, _)
WordOf(node, inputs) ==
    IF node.kind \in Sources THEN inputs[node.value]
    ELSE Execution(node, [i \in DOMAIN node.inputs |-> node.inputs[i].type],
                   [i \in DOMAIN node.inputs |-> WordOf(node.inputs[i], inputs)])

RECURSIVE NodesOf(_)
NodesOf(node) == {node} \cup UNION {NodesOf(node.inputs[i]) : i \in DOMAIN node.inputs}

ViewsOf(v) == {lowered[v].base, lowered[v].unsigned, lowered[v].signed} \ {NoNode}

Nodes ==
    UNION {NodesOf(node) :
        node \in UNION {ViewsOf(v) : v \in DOMAIN lowered}
                 \cup {lowBits[entry] : entry \in DOMAIN lowBits}
                 \cup {use.node : use \in uses}}

\* What the builder asserts where assertions are compiled in: operands have the
\* types their instruction takes, and bits are in range (builder.ts).
TypeOK ==
    Finished =>
        \A node \in Nodes :
            /\ WellTyped(node, [i \in DOMAIN node.inputs |-> node.inputs[i].type])
            /\ ValidBits(node.type, node.bits)

\* The base of a value agrees with it in the bits it has, its views agree with it
\* in every bit, and evaluating them does not trap (values.ts, operations.ts).
LoweringIsExact ==
    Finished =>
        \A v \in DOMAIN lowered : \A words \in family.inputs :
            LET value == meaning[v][words]
                word(node) == WordOf(node, words)
            IN  value # Undefined =>
                    /\ word(lowered[v].base) # Trap
                    /\ word(lowered[v].base) % 2^v.width = value
                    /\ lowered[v].unsigned # NoNode => word(lowered[v].unsigned) = value
                    /\ lowered[v].signed # NoNode =>
                           word(lowered[v].signed) = SignedInteger(v.width, value) % 2^I32

\* Where only some low bits of a value were asked for, those bits are the
\* value's, whatever was left out above them (low-bits.ts).
LowBitsAreExact ==
    Finished =>
        \A entry \in DOMAIN lowBits : \A words \in family.inputs :
            LET value == meaning[entry[1]][words]
                word  == WordOf(lowBits[entry], words)
            IN  value # Undefined => word # Trap /\ word % 2^entry[2] = value % 2^entry[2]

\* A branch is taken exactly when its bit is set, and a storage wider than the
\* value gets zeros above it, whatever the base carries there
\* (values.ts condition, function.ts "resource.write").
UsesAreExact ==
    Finished =>
        \A use \in uses : \A words \in family.inputs :
            LET value == meaning[use.value][words]
                word  == WordOf(use.node, words)
            IN  value # Undefined =>
                    /\ word # Trap
                    /\ IF use.as = "condition" THEN (word # 0) = (value = 1)
                       ELSE word % 2^use.width = value

=============================================================================
