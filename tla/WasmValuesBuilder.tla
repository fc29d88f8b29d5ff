-------------------------- MODULE WasmValuesBuilder --------------------------
(***************************************************************************)
(* The builder of WebAssembly values                                       *)
(* (compiler/wasm/function/values/builder.ts), through which lowering      *)
(* makes every integer value of a function.  A value is the position of    *)
(* its node; a node that was built before is not built again, except that  *)
(* the outputs of producers and the inputs of loops are all different.     *)
(* What is known of a node - the bits its words may need, whether its      *)
(* instruction may be executed where nobody wants it - is derived once,    *)
(* from what is known of its inputs then.                                  *)
(*                                                                         *)
(* Beside the graph one execution of it is kept: the word of every node.   *)
(* Sources have any word that what was declared of them allows.            *)
(***************************************************************************)
EXTENDS WasmValues

CONSTANTS
    Type,       \* the types of WebAssembly's integers that are used
    Samples,    \* Samples[type]: the words of constants and sources
    Declared,   \* Declared[type]: the bits a source may be declared to need
    Index,      \* the positions of the function's parameters
    MaxValues   \* how many values a function has

ASSUME TypeAssumption == Type \subseteq {I32, I64}

ASSUME SamplesAssumption ==
    \A type \in Type : Samples[type] \subseteq 0 .. 2^type - 1

ASSUME DeclaredAssumption ==
    \A type \in Type : \A bits \in Declared[type] :
        /\ bits \in [unsigned : 1 .. type, signed : 1 .. type]
        /\ ValidBits(type, bits)

ASSUME MaxValuesAssumption == MaxValues \in Nat

VARIABLES
    nodes,            \* the nodes, with the positions of their inputs
    requiredBits,     \* the bits the words of each node may need
    cannotSpeculate,  \* the nodes whose instruction has to wait until it is wanted
    words             \* the word of each node, in an execution

vars == <<nodes, requiredBits, cannotSpeculate, words>>

Ids == DOMAIN nodes

Facts(id) ==
    [kind |-> nodes[id].kind, value |-> nodes[id].value, type |-> nodes[id].type,
     bits |-> requiredBits[id]]

TypesOf(node)  == [i \in DOMAIN node.inputs |-> nodes[node.inputs[i]].type]
InputsOf(node) == [i \in DOMAIN node.inputs |-> words[node.inputs[i]]]

\* The node as it is kept: its inputs are positions, and what is known of it is
\* kept beside it.
Kept(known, inputs) ==
    [kind |-> known.kind, operator |-> known.operator, value |-> known.value,
     type |-> known.type, inputs |-> inputs]

-----------------------------------------------------------------------------
AppendNode(known, inputs, word) ==
    /\ nodes' = Append(nodes, Kept(known, inputs))
    /\ requiredBits' = Append(requiredBits, known.bits)
    /\ cannotSpeculate' = IF known.canSpeculate THEN cannotSpeculate
                          ELSE cannotSpeculate \cup {Len(nodes) + 1}
    /\ words' = Append(words, word)

IsNew(node) == \A id \in Ids : nodes[id] # node

\* A node that is there is not built again.
Intern(known, inputs) ==
    LET node == Kept(known, inputs)
    IN  /\ IsNew(node)
        /\ WellTyped(node, TypesOf(node))
        /\ AppendNode(known, inputs, Execution(node, TypesOf(node), InputsOf(node)))

Init ==
    /\ nodes = <<>> /\ requiredBits = <<>> /\ words = <<>>
    /\ cannotSpeculate = {}

Constant(type, value) == Intern(ConstantNode(type, value), <<>>)

Unreachable(type) == Intern(UnreachableNode(type), <<>>)

Parameter(index, type, bits, word) ==
    LET known == ParameterNode(index, type, bits)
    IN  /\ IsNew(Kept(known, <<>>))
        /\ Fits(word, type, bits)
        /\ AppendNode(known, <<>>, word)

\* A parameter that is asked for again may be declared anew; what was derived
\* from what was known of it is left as it is.
RedeclareParameter(id, bits) ==
    /\ nodes[id].kind = "parameter"
    /\ Fits(words[id], nodes[id].type, bits)
    /\ requiredBits' = [requiredBits EXCEPT ![id] = bits]
    /\ UNCHANGED <<nodes, cannotSpeculate, words>>

Occurrence(kind, type, bits, word) == AppendNode(SourceNode(kind, 0, type, bits), <<>>, word)

ProducerOutput(type, bits, word) ==
    Fits(word, type, bits) /\ Occurrence("producerOutput", type, bits, word)

\* The result of control flow is the result of one of the arms that end.
JoinOutput(type, results, result) ==
    /\ \A id \in results : nodes[id].type = type
    /\ words[result] # Trap
    /\ Occurrence("producerOutput", type,
                  JoinRequiredBits(type, {requiredBits[id] : id \in results}), words[result])

LoopInput(type, word) == Occurrence("loopInput", type, UnknownRequiredBits(type), word)

Unary(operator, extendedWidth, a) == Intern(UnaryNode(operator, extendedWidth, Facts(a)), <<a>>)

Binary(operator, a, b) == Intern(BinaryNode(operator, Facts(a), Facts(b)), <<a, b>>)

Compare(operator, a, b) == Intern(CompareNode(operator, Facts(a), Facts(b)), <<a, b>>)

Eqz(a) == Intern(EqzNode(Facts(a)), <<a>>)

Convert(operator, a) == Intern(ConvertNode(operator, Facts(a)), <<a>>)

Select(condition, a, b) ==
    Intern(SelectNode(Facts(condition), Facts(a), Facts(b)), <<a, b, condition>>)

Build ==
    \/ \E type \in Type : \E value \in Samples[type] : Constant(type, value)
    \/ \E type \in Type : Unreachable(type)
    \/ \E index \in Index, type \in Type :
          \E bits \in Declared[type], word \in Samples[type] : Parameter(index, type, bits, word)
    \/ \E type \in Type : \E bits \in Declared[type], word \in Samples[type] :
          ProducerOutput(type, bits, word)
    \/ \E type \in Type, results \in SUBSET Ids : \E result \in results :
          JoinOutput(type, results, result)
    \/ \E type \in Type : \E word \in Samples[type] : LoopInput(type, word)
    \/ \E operator \in BitCounts, a \in Ids : Unary(operator, 0, a)
    \/ \E width \in Narrow \ {1}, a \in Ids : Unary("extend_s", width, a)
    \/ \E operator \in BinaryOperators, a, b \in Ids : Binary(operator, a, b)
    \/ \E operator \in Comparisons, a, b \in Ids : Compare(operator, a, b)
    \/ \E a \in Ids : Eqz(a)
    \/ \E operator \in {"wrap_i64", "extend_i32_u", "extend_i32_s"}, a \in Ids :
          Convert(operator, a)
    \/ \E condition, a, b \in Ids : Select(condition, a, b)

Next ==
    \/ Len(nodes) < MaxValues /\ Build
    \/ \E id \in Ids : \E bits \in Declared[nodes[id].type] : RedeclareParameter(id, bits)

Spec == Init /\ [][Next]_vars

-----------------------------------------------------------------------------
(* Properties *)

\* Nodes take operands of their types, words are words of their type, and what
\* is derived of a node passes the assertion on it (builder.ts #setRequiredBits).
TypeOK ==
    /\ DOMAIN requiredBits = Ids /\ DOMAIN words = Ids /\ cannotSpeculate \subseteq Ids
    /\ \A id \in Ids :
          /\ \A i \in DOMAIN nodes[id].inputs : nodes[id].inputs[i] \in 1 .. id - 1
          /\ WellTyped(nodes[id], TypesOf(nodes[id]))
          /\ ValidBits(nodes[id].type, requiredBits[id])
          /\ words[id] \in {Trap} \cup 0 .. 2^nodes[id].type - 1

\* No execution needs more bits than is known of a node: on this rest the views
\* that are taken for granted, the masks that are left out and the divisions
\* that may be executed early (required-bits.ts).
RequiredBitsSuffice ==
    \A id \in Ids : words[id] # Trap => Fits(words[id], nodes[id].type, requiredBits[id])

\* An instruction that placement may execute where nobody wants it does not trap
\* by itself (speculation.ts).
SpeculationIsSafe ==
    \A id \in Ids \ cannotSpeculate :
        words[id] = Trap => \E i \in DOMAIN nodes[id].inputs : words[nodes[id].inputs[i]] = Trap

=============================================================================
