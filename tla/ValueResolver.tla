--------------------------- MODULE ValueResolver ---------------------------
(***************************************************************************)
(* The resolution of the values a function is written with                 *)
(* (compiler/function/values/resolver.ts).  A value that is written is     *)
(* simplified over what its operands are resolved to, once, and everything *)
(* that is lowered is what it was resolved to.                             *)
(*                                                                         *)
(* Beside the resolution there is what each value is, for every word that  *)
(* the sources may carry: what is written is evaluated as it is written,   *)
(* and what it is resolved to as that stands.                              *)
(***************************************************************************)
EXTENDS SourceValues

CONSTANT Families

(***************************************************************************)
(* A family of functions: its sources, which are parameters of a type,     *)
(* outputs of a producer, or loads of a value from a wider storage, with   *)
(* the bits that are known to be zero; the words they are tried with; the  *)
(* constants, operators and widths it uses; and how many values it writes  *)
(* and asks for.                                                           *)
(***************************************************************************)
ASSUME FamiliesAssumption ==
    \A f \in Families :
        /\ \A i \in DOMAIN f.sources :
              /\ f.sources[i].width \in Widths
              /\ f.sources[i].role \in {"parameter", "producer", "carrier"}
              /\ f.sources[i].unsigned \in 1 .. I64
        /\ \A words \in f.inputs : \A i \in DOMAIN f.sources :
              words[i] \in 0 .. 2^f.sources[i].unsigned - 1
        /\ \A c \in f.constants :
              /\ c.width \in Widths /\ c.value \in Nat
              /\ c \in {ConstantValue(c.width, c.value), UnreachableValue(c.width)}
        /\ f.binary \subseteq BinaryOperators /\ f.comparisons \subseteq Comparisons
        /\ f.zeroTests \subseteq ZeroTests /\ f.bitCounts \subseteq BitCounts
        /\ f.extensions \subseteq {"signed", "unsigned"} /\ f.widths \subseteq Widths

VARIABLES
    family,      \* the family of the function
    written,     \* the values written
    resolution,  \* what every value that was resolved is resolved to
    meaning      \* what every value is, for each choice of words

resolverVars == <<family, written, resolution, meaning>>

\* The resolver's table, and the meanings of what is in it.
Known == [resolution |-> resolution, meaning |-> meaning]

MeaningOf(known, e) ==
    [words \in family.inputs |->
        Evaluate(e, [i \in DOMAIN e.inputs |-> known[e.inputs[i]][words]], words)]

\* What a table already has stays.
WithEntry(table, e, entry) ==
    [x \in DOMAIN table \cup {e} |-> IF x \in DOMAIN table THEN table[x] ELSE entry]

WithMeaning(known, e) == WithEntry(known, e, MeaningOf(known, e))

\* An expression over what its operands are resolved to.
OverResolved(known, e) ==
    [e EXCEPT !.inputs = [i \in DOMAIN e.inputs |-> known.resolution[e.inputs[i]]]]

\* A value is resolved once, after its operands.
Resolve(known, e) ==
    LET simplified == Simplify(OverResolved(known, e))
    IN  IF e \in DOMAIN known.resolution THEN known
        ELSE [resolution |-> WithEntry(known.resolution, e, simplified),
              meaning    |-> WithMeaning(WithMeaning(known.meaning, e), simplified)]

-----------------------------------------------------------------------------
SourceOf(i) == SourceValue(i, family.sources[i].width)

Leaves == {SourceOf(i) : i \in DOMAIN family.sources} \cup family.constants

Operands == Leaves \cup {written[i] : i \in DOMAIN written}

\* Sources, constants and what is unreachable are what they are.
ResolverInit ==
    /\ family \in Families
    /\ written = <<>>
    /\ resolution = [e \in Leaves |-> e]
    /\ meaning = [e \in Leaves |-> MeaningOf(<<>>, e)]

\* Each value is built on the one before.
WriteOver(known, e) ==
    /\ Len(written) < family.values
    /\ written # <<>> => \E i \in DOMAIN e.inputs : e.inputs[i] = written[Len(written)]
    /\ written' = Append(written, e)
    /\ resolution' = Resolve(known, e).resolution
    /\ meaning' = Resolve(known, e).meaning
    /\ UNCHANGED family

WriteValue(e) == WriteOver(Known, e)

\* The count of a shift may be an extension that nobody wrote.
WriteBinary ==
    \E operator \in family.binary, a, b \in Operands :
        LET e == BinaryValue(operator, a, b)
        IN  /\ IF operator \in Shifts \cup Rotates THEN b.width <= I32 ELSE b.width = a.width
            /\ WriteOver(Resolve(Known, e.inputs[2]), e)

WriteComparison ==
    \E operator \in family.comparisons, a, b \in Operands :
        a.width = b.width /\ WriteValue(CompareValue(operator, a, b))

WriteZeroTest ==
    \E operator \in family.zeroTests, a \in Operands : WriteValue(ZeroTestValue(operator, a))

WriteBitCount ==
    \E operator \in family.bitCounts, a \in Operands : WriteValue(BitCountValue(operator, a))

WriteExtension ==
    \E operator \in family.extensions, a \in Operands, width \in family.widths :
        a.width < width /\ WriteValue(ExtendValue(a, operator, width))

WriteTruncation ==
    \E a \in Operands, width \in family.widths :
        width < a.width /\ WriteValue(TruncateValue(a, width))

WriteSelect ==
    \E condition, a, b \in Operands :
        /\ family.selects /\ condition.width = 1 /\ a.width = b.width
        /\ WriteValue(SelectValue(condition, a, b))

ResolverNext ==
    \/ WriteBinary \/ WriteComparison \/ WriteZeroTest \/ WriteBitCount
    \/ WriteExtension \/ WriteTruncation \/ WriteSelect

ResolverSpec == ResolverInit /\ [][ResolverNext]_resolverVars

-----------------------------------------------------------------------------
(* Properties *)

\* A value that is folded, or replaced by an operand, is what it was written to
\* be wherever that is defined, of operands that were themselves replaced
\* (simplify.ts, evaluate.ts, resolver.ts).
SimplificationKeepsValue ==
    \A e \in DOMAIN resolution : \A words \in family.inputs :
        meaning[e][words] # Undefined => meaning[resolution[e]][words] = meaning[e][words]

=============================================================================
