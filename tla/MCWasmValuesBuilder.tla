------------------------- MODULE MCWasmValuesBuilder -------------------------
(***************************************************************************)
(* An instance of WasmValuesBuilder: words at the ends of both types, and  *)
(* sources of which nothing is known, or that they are 0 or 1, 0 or -1.    *)
(***************************************************************************)
EXTENDS WasmValuesBuilder

MCSamples == [type \in Type |-> {0, 1, 2^(type - 1), 2^type - 1}]

MCDeclared ==
    [type \in Type |->
        {Bits(type, type), Bits(1, 2), Bits(type, 1)}]

=============================================================================
