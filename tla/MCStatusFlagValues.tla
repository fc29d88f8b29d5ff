------------------------ MODULE MCStatusFlagValues ------------------------
(***************************************************************************)
(* Width 8 with every operand; width 16 with operands on both sides of     *)
(* each boundary.  Counts beyond 31 are there for the mask.                *)
(***************************************************************************)
EXTENDS StatusFlagValues

MCOperand ==
    [w \in {8, 16} |->
        IF w = 8 THEN 0 .. 255
        ELSE {0, 1, 15, 16, 255, 256, 21845, 32767, 32768, 43690, 65535}]

MCAmount == 0 .. 33
=============================================================================
