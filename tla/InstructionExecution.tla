------------------------ MODULE InstructionExecution ------------------------
(***************************************************************************)
(* What Cpu.run promises its host, without fetch windows, fallbacks,       *)
(* tail calls and modular counters: a run executes whole instructions one  *)
(* after the other, starts none once its budget is spent, and stops.  An   *)
(* instruction is fetched byte by byte: the first byte that is not mapped  *)
(* raises a page fault there, and needing a byte past the length limit     *)
(* raises a general protection fault.                                      *)
(***************************************************************************)
EXTENDS Integers

CONSTANTS
    AddressCount,             \* linear addresses; they wrap
    InstructionLengthLimit,   \* bytes an instruction may have
    MaximumBudget,            \* largest instructionBudget of a run
    Encoding,                 \* instruction encodings, see InterpreterRun
    Mapping                   \* sets of mapped addresses the host sets up

VARIABLES
    eip,         \* address of the next instruction
    encoding,    \* the instruction that the bytes at eip encode
    available,   \* addresses that can be fetched
    budget,      \* instructionBudget of the current or last run
    spent,       \* units charged in this run: one, or one per REP unit
    stop         \* Running, or why the last run stopped

vars == <<eip, encoding, available, budget, spent, stop>>

Address == 0 .. AddressCount - 1
Running == [kind |-> "running"]
Stopped(kind) == [kind |-> kind]
PageFault(a) == [kind |-> "pageFault", address |-> a]

At(offset) == (eip + offset) % AddressCount

\* Offsets of the bytes the instruction needs before the length limit.
Needed ==
    {o \in 0 .. InstructionLengthLimit - 1 : o < encoding.length}

Missing == {o \in Needed : At(o) \notin available}

Fetched == Missing = {} /\ encoding.length <= InstructionLengthLimit

Init ==
    /\ eip \in Address
    /\ encoding \in Encoding
    /\ available \in Mapping
    /\ budget = 0
    /\ spent = 0
    /\ stop = Stopped("idle")

\* Between runs the host writes guest memory, page table and eip.
Prepare ==
    /\ stop # Running
    /\ eip' \in Address
    /\ encoding' \in Encoding
    /\ available' \in Mapping
    /\ UNCHANGED <<budget, spent, stop>>

Run ==
    /\ stop # Running
    /\ budget' \in 0 .. MaximumBudget
    /\ spent' = 0
    /\ stop' = Running
    /\ UNCHANGED <<eip, encoding, available>>

MayExecute == stop = Running /\ spent < budget

FetchFails ==
    /\ MayExecute
    /\ \/ \E o \in Missing :
             /\ \A p \in Missing : o <= p
             /\ stop' = PageFault(At(o))
       \/ /\ Missing = {}
          /\ encoding.length > InstructionLengthLimit
          /\ stop' = Stopped("generalProtection")
    /\ UNCHANGED <<eip, encoding, available, budget, spent>>

\* An instruction that raises, or asks the host for a segment, charges nothing
\* and is still the next instruction.
Raise ==
    /\ MayExecute
    /\ Fetched
    /\ encoding.effect \in {"exception", "segmentLoad"}
    /\ stop' = Stopped(encoding.effect)
    /\ UNCHANGED <<eip, encoding, available, budget, spent>>

\* The run may notice that the budget is spent now or at the next step.
Complete ==
    /\ MayExecute
    /\ Fetched
    /\ encoding.effect \in {"fallthrough", "jump", "trap"}
    /\ IF encoding.effect = "jump" THEN eip' \in Address
                                   ELSE eip' = At(encoding.length)
    /\ encoding' \in Encoding
    /\ spent' = spent + encoding.units
    /\ IF encoding.effect = "trap"
       THEN stop' = Stopped("trap")
       ELSE \/ stop' = Running
            \/ spent' >= budget /\ stop' = Stopped("instructionLimit")
    /\ UNCHANGED <<available, budget>>

Expire ==
    /\ stop = Running
    /\ spent >= budget
    /\ stop' = Stopped("instructionLimit")
    /\ UNCHANGED <<eip, encoding, available, budget, spent>>

Next == Prepare \/ Run \/ FetchFails \/ Raise \/ Complete \/ Expire

Spec == Init /\ [][Next]_vars
=============================================================================
