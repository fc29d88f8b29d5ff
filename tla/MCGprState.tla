----------------------------- MODULE MCGprState -----------------------------
(***************************************************************************)
(* Instances of GprState.  One 32-bit register is enough for every alias   *)
(* relation of the ISA: eax covers ax, ax covers al and ah, al and ah are  *)
(* disjoint.  Bytes 2 and 3 of eax always move together and are one byte   *)
(* here.                                                                   *)
(***************************************************************************)
EXTENDS GprState, TLC

MCByte == 0..2
MCChannel == {"eax", "ax", "al", "ah"}
MCExtent == [c \in MCChannel |-> CASE c = "eax" -> 0..2
                                   [] c = "ax" -> 0..1
                                   [] c = "al" -> {0}
                                   [] c = "ah" -> {1}]

(***************************************************************************)
(* Outside "checking" the boundary and the history are dead: the next      *)
(* BeginInstruction overwrites them and nothing reads them before.  The    *)
(* value a read returned is never read back.  States that differ only      *)
(* there have the same future.                                             *)
(***************************************************************************)
MCView ==
    <<mem, entries, dirty, reads, phase,
      IF phase = "checking"
      THEN <<boundaryKeys, restore, unrestorableStore, history>>
      ELSE << >> >>

\* Byte contents are only compared, never computed with.
MCSymmetry == Permutations(Value)
=============================================================================
