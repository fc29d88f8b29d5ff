----------------------------- MODULE WasmValues -----------------------------
(***************************************************************************)
(* The graph of WebAssembly values                                         *)
(* (compiler/wasm/function/values/builder.ts): what each node is, the bits *)
(* its words may need and whether its instruction may be executed where    *)
(* nobody wants it.  The builder interns a node under its operator and its *)
(* inputs; here a node is its own identity.  Float nodes are left out.     *)
(***************************************************************************)
EXTENDS RequiredBits, Sequences

NoNode == [kind |-> "none"]

UnsafeOperators == {"div_s", "div_u", "rem_s", "rem_u"}

\* The word of a constant node, or Undefined.
IntegerConstant(node) == IF node.kind = "const" THEN node.value ELSE Undefined

MayContainSignedMinimum(bits, type) == bits.unsigned = type /\ bits.signed = type

\* Slip: the least word has no place in the bits.
CanSpeculateNonzero(type, operator, left, right) ==
    operator \in UnsafeOperators => IntegerConstant(right) \notin {Undefined, 0}

\* A division by a constant other than zero; by -1 if the dividend is not the least word.
CanSpeculateIntegerBinary(type, operator, left, right) ==
    LET divisor  == IntegerConstant(right)
        dividend == IntegerConstant(left)
    IN  operator \in UnsafeOperators =>
            /\ divisor \notin {Undefined, 0}
            /\ operator = "div_s" /\ divisor = AllBits(type) =>
                  IF dividend = Undefined THEN ~MayContainSignedMinimum(left.bits, type)
                  ELSE dividend # 2^(type - 1)

\* A node over nodes, with what is known of it; value is a constant's word, a
\* source's index, or the width that a sign extension inside a word starts from.
Node(kind, operator, value, type, inputs, bits, canSpeculate) ==
    [kind |-> kind, operator |-> operator, value |-> value, type |-> type, inputs |-> inputs,
     bits |-> bits, canSpeculate |-> canSpeculate]

Sources == {"parameter", "producerOutput", "loopInput"}

SourceNode(kind, index, type, bits) == Node(kind, "none", index, type, <<>>, bits, TRUE)

ConstantNode(type, value) ==
    LET word == NormalizeInteger(type, value)
    IN  Node("const", "none", word, type, <<>>, ConstantRequiredBits(type, word), TRUE)

UnreachableNode(type) ==
    Node("unreachable", "none", 0, type, <<>>, UnknownRequiredBits(type), FALSE)

ParameterNode(index, type, bits) == SourceNode("parameter", index, type, bits)

ProducerOutputNode(index, type, bits) == SourceNode("producerOutput", index, type, bits)

UnaryNode(operator, extendedWidth, a) ==
    Node("unary", operator, extendedWidth, a.type, <<a>>,
         UnaryRequiredBits(a.type, operator, extendedWidth, a.bits), TRUE)

BinaryNode(operator, a, b) ==
    Node("binary", operator, 0, a.type, <<a, b>>,
         BinaryRequiredBits(a.type, operator, a.bits, b.bits, IntegerConstant(b)),
         CanSpeculateIntegerBinary(a.type, operator, a, b))

CompareNode(operator, a, b) ==
    Node("compare", operator, 0, I32, <<a, b>>, ZeroExtendedRequiredBits(I32, 1), TRUE)

EqzNode(a) == Node("eqz", "none", 0, I32, <<a>>, ZeroExtendedRequiredBits(I32, 1), TRUE)

ConvertedType(operator) == IF operator = "wrap_i64" THEN I32 ELSE I64

ConvertNode(operator, a) ==
    Node("convert", operator, 0, ConvertedType(operator), <<a>>,
         ConversionRequiredBits(operator, a.bits), TRUE)

SelectNode(condition, a, b) ==
    Node("select", "none", 0, a.type, <<a, b, condition>>,
         JoinRequiredBits(a.type, {a.bits, b.bits}), TRUE)

-----------------------------------------------------------------------------
(* The builder's assertions, which production builds leave out *)

ValidBits(type, bits) ==
    /\ bits.unsigned \in 1 .. type
    /\ bits.signed \in 1 .. Least(type, bits.unsigned + 1)

\* types are those of the inputs.
WellTyped(node, types) ==
    CASE node.kind \in {"binary", "compare"} -> types[1] = types[2]
      [] node.kind = "select"  -> types[1] = types[2] /\ types[3] = I32
      [] node.kind = "convert" -> types[1] = IF node.operator = "wrap_i64" THEN I64 ELSE I32
      [] node.kind = "unary"   -> node.operator = "extend_s" => types[1] = I32
      [] OTHER -> TRUE

-----------------------------------------------------------------------------
(* WebAssembly's own integer instructions.  A word is non-negative; an     *)
(* instruction without a result traps.                                     *)

Trap == -1

BinaryInstruction(type, operator, x, y) ==
    LET signedX == SignedInteger(type, x)
        signedY == SignedInteger(type, y)
        count   == y % type
    IN  CASE operator = "add" -> (x + y) % 2^type
          [] operator = "sub" -> (x - y) % 2^type
          [] operator = "mul" -> (x * y) % 2^type
          [] operator = "div_s" ->
                IF y = 0 \/ (signedY = -1 /\ x = 2^(type - 1)) THEN Trap
                ELSE Quotient(signedX, signedY) % 2^type
          [] operator = "rem_s" -> IF y = 0 THEN Trap ELSE Remainder(signedX, signedY) % 2^type
          [] operator = "div_u" -> IF y = 0 THEN Trap ELSE x \div y
          [] operator = "rem_u" -> IF y = 0 THEN Trap ELSE x % y
          [] operator = "and"   -> BitAnd(type, x, y)
          [] operator = "or"    -> BitOr(type, x, y)
          [] operator = "xor"   -> BitXor(type, x, y)
          [] operator = "shl"   -> (x % 2^(type - count)) * 2^count
          [] operator = "shr_u" -> x \div 2^count
          [] operator = "shr_s" -> (signedX \div 2^count) % 2^type
          [] operator = "rotl"  -> (x % 2^(type - count)) * 2^count + x \div 2^(type - count)
          [] operator = "rotr"  -> (x % 2^count) * 2^(type - count) + x \div 2^count

UnaryInstruction(type, operator, extendedWidth, x) ==
    IF operator = "extend_s" THEN SignedInteger(extendedWidth, x) % 2^type
    ELSE EvaluateBitCount(operator, type, x)

ConvertInstruction(operator, x) ==
    CASE operator = "wrap_i64"     -> x % 2^I32
      [] operator = "extend_i32_u" -> x
      [] operator = "extend_i32_s" -> SignedInteger(I32, x) % 2^I64

\* The word of an operation for the types and the words of its inputs.
Instruction(node, types, words) ==
    LET Bit(p) == IF p THEN 1 ELSE 0
    IN  CASE node.kind = "unary" ->
                UnaryInstruction(node.type, node.operator, node.value, words[1])
          [] node.kind = "binary" ->
                BinaryInstruction(node.type, node.operator, words[1], words[2])
          [] node.kind = "compare" ->
                Bit(EvaluateComparison(node.operator, types[1], words[1], words[2]))
          [] node.kind = "eqz"     -> Bit(words[1] = 0)
          [] node.kind = "convert" -> ConvertInstruction(node.operator, words[1])
          [] node.kind = "select"  -> IF words[3] # 0 THEN words[1] ELSE words[2]

\* No instruction is executed once an operand has trapped.
Execution(node, types, words) ==
    CASE node.kind = "const" -> node.value
      [] node.kind = "unreachable" -> Trap
      [] node.kind \notin {"const", "unreachable"} ->
            IF \E i \in DOMAIN words : words[i] = Trap THEN Trap
            ELSE Instruction(node, types, words)

=============================================================================
