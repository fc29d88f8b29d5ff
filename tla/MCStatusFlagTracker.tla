------------------------ MODULE MCStatusFlagTracker ------------------------
(***************************************************************************)
(* Two flags: OF is fixed by a logic result, ZF comes from the result.     *)
(* Operands are single bits, which is enough for both flags to take both   *)
(* values after an add or a sub; the real formulas are checked in          *)
(* StatusFlagValues.                                                       *)
(***************************************************************************)
EXTENDS StatusFlagTracker

MCFlag == {"OF", "ZF"}

MCBit(p) == IF p THEN 1 ELSE 0

MCDerived ==
    [s \in Source |->
        [f \in MCFlag |->
            CASE s.kind = "add" -> MCBit(IF f = "OF" THEN s.a = 1 /\ s.b = 1
                                                     ELSE s.a = s.b)
              [] s.kind = "sub" -> MCBit(IF f = "OF" THEN s.a < s.b
                                                     ELSE s.a = s.b)
              [] s.kind = "logic" -> MCBit(f = "ZF" /\ s.a = 0)]]

MCCondition == {"E", "LE", "O"}

MCReads ==
    [cc \in MCCondition |-> CASE cc = "E" -> {"ZF"}
                              [] cc = "LE" -> {"OF", "ZF"}
                              [] cc = "O" -> {"OF"}]

MCTruth ==
    [cc \in MCCondition |->
        {i \in [MCFlag -> {0, 1}] : \E f \in MCReads[cc] : i[f] = 1}]

MCDirect ==
    [k \in Kind |-> CASE k = "add" -> {}
                      [] k = "sub" -> {"E", "LE"}
                      [] k = "logic" -> {"E"}]

(***************************************************************************)
(* States that differ only in what nothing reads any more are one state:   *)
(* the boundary and what a raise returns to, unless the path can still     *)
(* raise; cached inputs, once no flag is backed by memory; the backings at *)
(* the top of the loop; what a read or a test returned.                    *)
(***************************************************************************)
MCView ==
    <<mem, fields.entries, fields.dirty, fields.reads, phase,
      IF phase = "looping" THEN << >>
      ELSE <<status.backing, status.directSource,
             IF InputBacked(status) = {} THEN << >> ELSE status.inputs>>,
      IF outer = NoOuter THEN << >>
      ELSE <<outer.arm, outer.fields.entries, outer.fields.dirty,
             outer.fields.reads>>,
      IF phase \in {"running", "looping"}
      THEN <<fields.boundary, saved>> ELSE << >> >>
=============================================================================
