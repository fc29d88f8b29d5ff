--------------------------- MODULE MCValueLowering ---------------------------
(***************************************************************************)
(* Instances of ValueLowering: families of functions that aim at one part  *)
(* of the lowering each, with words around the ends of every width.        *)
(***************************************************************************)
EXTENDS ValueLowering

Parameter(width)      == [role |-> "parameter", width |-> width, unsigned |-> width]
Producer(width, bits) == [role |-> "producer", width |-> width, unsigned |-> bits]
Carrier(width, bits)  == [role |-> "carrier", width |-> width, unsigned |-> bits]

Family ==
    [sources |-> <<Parameter(4), Producer(4, 8)>>,
     inputs |-> {0, 1, 7, 8, 15} \X {0, 1, 8, 24, 127, 128, 255},
     constants |-> {}, binary |-> {}, comparisons |-> {}, zeroTests |-> {}, bitCounts |-> {},
     extensions |-> {}, widths |-> {}, storages |-> {}, selects |-> FALSE,
     values |-> 1, demands |-> 1]

Constants(width, values) == {ConstantValue(width, value) : value \in values}

\* Every operator on narrow operands, with and without something above their width.
Narrows ==
    [Family EXCEPT !.constants = Constants(4, {0, 1, 7, 8, 15}) \cup Constants(8, {3, 4, 6}),
                   !.binary = BinaryOperators, !.comparisons = Comparisons,
                   !.zeroTests = ZeroTests, !.bitCounts = BitCounts,
                   !.extensions = {"signed", "unsigned"}, !.widths = {1, 8, 16},
                   !.storages = {4, 16}]

\* The same on words, of one of which only four bits are used.
WordSources ==
    [Narrows EXCEPT !.sources = <<Parameter(8), Producer(8, 4)>>,
                    !.inputs = {0, 1, 8, 127, 128, 200, 255} \X {0, 1, 3, 8, 15},
                    !.constants = Constants(8, {0, 1, 7, 15, 128, 255}),
                    !.widths = {1, 4, 16}, !.storages = {8, 16}]

\* Operations whose results need more than their width, or fewer bits, as operands.
Chains ==
    [Family EXCEPT !.constants = Constants(4, {7}),
                   !.binary = {"add", "mul", "div_s", "rem_u", "and"}, !.values = 2]

\* Masks and shifts of which a truncation wants the low bits.
Masks ==
    [Family EXCEPT !.sources = <<Parameter(8)>>,
                   !.inputs = {<<word>> : word \in {0, 15, 16, 90, 165, 240, 255}},
                   !.constants = Constants(8, {3, 6, 28}),
                   !.binary = {"and", "shr_u"}, !.widths = {1, 4}, !.values = 3]

\* Bits and narrow values in conditions and selections, after other uses of them.
Selections ==
    [Family EXCEPT !.sources = <<Producer(1, 8), Producer(4, 8)>>,
                   !.inputs = {0, 1, 2, 255} \X {0, 1, 8, 16, 24, 255},
                   !.constants = {UnreachableValue(4)},
                   !.binary = {"add", "div_s"}, !.comparisons = {"eq", "lt_s"}, !.zeroTests = ZeroTests,
                   !.selects = TRUE, !.values = 2, !.demands = 2]

\* Counts that come through extensions and truncations.
Counts ==
    [Family EXCEPT !.sources = <<Parameter(16), Producer(4, 8), Producer(1, 8)>>,
                   !.inputs = {1, 9, 33023} \X {3, 8, 255} \X {0, 3},
                   !.binary = {"shl", "shr_s", "rotr"},
                   !.extensions = {"signed", "unsigned"}, !.widths = {4, 8},
                   !.values = 2]

\* Values in the low bits of a wider storage, and words of both types.
Longs ==
    [Family EXCEPT !.sources = <<Parameter(16), Carrier(4, 4)>>,
                   !.inputs = {0, 1, 255, 256, 32767, 32768, 65535} \X {0, 1, 7, 8, 15},
                   !.constants = Constants(16, {1, 255, 65535}),
                   !.binary = {"add", "and", "shr_u", "div_s"}, !.zeroTests = {"nonzero"},
                   !.extensions = {"signed", "unsigned"}, !.widths = {1, 4, 8, 16},
                   !.storages = {16}, !.values = 2]

AllFamilies == {Narrows, WordSources, Chains, Masks, Selections, Counts, Longs}

=============================================================================
