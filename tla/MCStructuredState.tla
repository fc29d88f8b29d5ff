------------------------- MODULE MCStructuredState -------------------------
(***************************************************************************)
(* Instances of StructuredState: one register with its two disjoint parts. *)
(***************************************************************************)
EXTENDS StructuredState, TLC

MCByte == 0..1
MCChannel == {"ax", "al", "ah"}
MCExtent == [c \in MCChannel |-> CASE c = "ax" -> 0..1
                                   [] c = "al" -> {0}
                                   [] c = "ah" -> {1}]

(***************************************************************************)
(* The last result is never read back.  Outside an instruction its history *)
(* is dead, and outside "checking" so are the boundary and startRegs, in   *)
(* the tracker and in a snapshot of it that is open then: no scope returns *)
(* to "checking" but by the top of a loop, which overwrites them.          *)
(***************************************************************************)
Live(t) == IF phase = "checking" THEN t
           ELSE [entries |-> t.entries, dirty |-> t.dirty, reads |-> t.reads,
                 restore |-> t.restore = t.restore]

MCView ==
    <<mem, Live(Tracker), phase, log, counters,
      IF phase = "checking" THEN startRegs ELSE << >>,
      IF Running THEN <<exact, written>> ELSE << >>,
      [i \in DOMAIN scopes |->
          IF scopes[i].kind = "loop" THEN [scopes[i] EXCEPT !.top = Live(@)]
          ELSE [scopes[i] EXCEPT !.saved = Live(@)]]>>

(***************************************************************************)
(* Contents of one byte are compared with contents of the same byte only,  *)
(* so a function that finds 0 in every byte stands for all.               *)
(***************************************************************************)
MCStart == phase = "exited" => \A b \in Byte : mem[b] = 0
=============================================================================
