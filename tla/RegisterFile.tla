---------------------------- MODULE RegisterFile ----------------------------
(***************************************************************************)
(* What the register state of a generated function promises to instruction *)
(* semantics, without the pending buffer, the read cache and the flushes   *)
(* that implement it: a register file whose channels alias byte by byte,   *)
(* and an instruction as a transaction on it.  An instruction that raises  *)
(* a CPU exception leaves the registers it started with; one that          *)
(* completes leaves the registers it wrote.                                *)
(***************************************************************************)
CONSTANTS
    Byte,      \* byte positions of the general registers
    Value,     \* contents of one byte
    Channel,   \* register names: eax, ax, al, ah, ...
    Extent     \* Extent[c] is the set of bytes the register name c denotes

VARIABLES
    regs,      \* the architectural contents of the registers
    saved,     \* regs when the current instruction began
    phase,     \* where the current path stands, see GprState
    result     \* the value the last read returned or the last write stored;
               \* << >> after other steps

vars == <<regs, saved, phase, result>>

NoResult == << >>

On(file, c) == [b \in Extent[c] |-> file[b]]

Running == phase \in {"checking", "committing"}

Init ==
    /\ regs \in [Byte -> Value]
    /\ saved = regs
    /\ phase = "exited"
    /\ result = NoResult

Enter ==
    /\ phase = "exited"
    /\ phase' = "between"
    /\ UNCHANGED <<regs, saved>>
    /\ result' = NoResult

Begin ==
    /\ phase = "between"
    /\ phase' = "checking"
    /\ saved' = regs
    /\ result' = NoResult
    /\ UNCHANGED regs

Read(c) ==
    /\ Running
    /\ result' = On(regs, c)
    /\ UNCHANGED <<regs, saved, phase>>

Write(c, v) ==
    /\ Running
    /\ regs' = [b \in Byte |-> IF b \in Extent[c] THEN v[b] ELSE regs[b]]
    /\ result' = v
    /\ UNCHANGED <<saved, phase>>

Commit ==
    /\ phase = "checking"
    /\ phase' = "committing"
    /\ result' = NoResult
    /\ UNCHANGED <<regs, saved>>

Complete ==
    /\ phase = "committing"
    /\ phase' = "between"
    /\ result' = NoResult
    /\ UNCHANGED <<regs, saved>>

\* A path that raises a CPU exception ends with the instruction undone.
Fault ==
    /\ phase = "checking"
    /\ phase' = "exited"
    /\ regs' = saved
    /\ result' = NoResult
    /\ UNCHANGED saved

\* A path that leaves after a completed instruction keeps every write.
Publish ==
    /\ phase = "between"
    /\ phase' = "exited"
    /\ result' = NoResult
    /\ UNCHANGED <<regs, saved>>

\* The top of a loop iteration keeps what the earlier iterations wrote: a
\* fault in this one restores no further than here.
Iterate ==
    /\ Running
    /\ phase' = "checking"
    /\ saved' = regs
    /\ result' = NoResult
    /\ UNCHANGED regs

Next ==
    \/ Enter \/ Begin \/ Commit \/ Complete \/ Iterate \/ Fault \/ Publish
    \/ \E c \in Channel :
          Read(c) \/ \E v \in [Extent[c] -> Value] : Write(c, v)

Spec == Init /\ [][Next]_vars
=============================================================================
