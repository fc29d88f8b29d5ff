--------------------------- MODULE InterpreterRun ---------------------------
(***************************************************************************)
(* One call of Cpu.run through the interpreter's generated functions       *)
(* (src/cpu/cpu.ts, src/interpreter): interpreter.run loops over direct    *)
(* instructions, whose bytes it reads unchecked from one window of         *)
(* InstructionLengthLimit bytes; where the window is unavailable, or the   *)
(* prefixes may push the instruction out of it, it tail-calls              *)
(* interpreter.run.exact-instruction, which checks each read, executes one *)
(* instruction and tail-calls interpreter.run.  Counters are modular.      *)
(*                                                                         *)
(* The bytes at eip are abstracted to the encoding they hold: how many     *)
(* prefix bytes, how many bytes in all, and what executing it does.        *)
(***************************************************************************)
EXTENDS Integers

CONSTANTS
    AddressCount,             \* linear addresses; they wrap
    InstructionLengthLimit,   \* X86_32_DECODE_MODEL.instructionLengthLimit
    MaximumUnprefixed,        \* its maximumUnprefixedByteLength
    HalfModulus,              \* half the range of the counters (2^31)
    Encoding,                 \* the encodings a program may hold
    Mapping                   \* sets of mapped addresses the host sets up

Address == 0 .. AddressCount - 1
Modulus == 2 * HalfModulus
Counter == 0 .. Modulus - 1
MaximumBudget == HalfModulus - 1
MaximumDirectPrefixes == InstructionLengthLimit - MaximumUnprefixed
Effect == {"fallthrough", "jump", "trap", "exception", "segmentLoad"}

\* effect "exception" is an invalid opcode too; units is more than 1 for a REP
\* string instruction only, which always falls through.
EncodingType ==
    [prefixes : Nat, length : Nat, effect : Effect, units : 1 .. Modulus - 1]

ASSUME LengthAssumption ==
    /\ InstructionLengthLimit \in Nat
    /\ MaximumUnprefixed \in 1 .. InstructionLengthLimit

ASSUME AddressAssumption ==
    AddressCount \in Nat \ {0} /\ Mapping \subseteq SUBSET Address

ASSUME CounterAssumption == HalfModulus \in Nat \ {0}

ASSUME EncodingAssumption ==
    /\ Encoding \subseteq EncodingType
    /\ \A e \in Encoding :
          /\ e.length - e.prefixes \in 1 .. MaximumUnprefixed
          /\ e.effect # "fallthrough" => e.units = 1

VARIABLES
    eip,         \* coreStateFields.eip
    encoding,    \* the instruction that the bytes at eip encode
    available,   \* addresses that can be fetched
    count,       \* instructionCountField
    limit,       \* instructionLimitField
    pc,          \* where the generated code is, see TypeOK
    start,       \* instructionStart, a local or the loop's input
    mode,        \* how InstructionByteStream reads: "direct" or "exact"
    cursor,      \* InstructionByteStream.#cursor
    bytewise,    \* bytes left of an encoded value being read bytewise
    stop,        \* Running, or why the last run stopped
    budget,      \* history: instructionBudget of the current or last run
    spent        \* history: units charged in this run, not modular

guest == <<eip, encoding, available>>
counters == <<count, limit, budget, spent>>
decoder == <<start, mode, cursor, bytewise>>
vars == <<guest, counters, decoder, pc, stop>>

Running == [kind |-> "running"]
Stopped(kind) == [kind |-> kind]
PageFault(a) == [kind |-> "pageFault", address |-> a]

Plus(a, b) == (a + b) % Modulus
Minus(a, b) == (a - b) % Modulus

\* The address of a byte of the instruction being decoded.
At(offset) == (start + offset) % AddressCount

\* A range resolution never wraps (VirtualMemory).
RangeAvailable(a, length) ==
    /\ a + length <= AddressCount
    /\ \A b \in a .. a + length - 1 : b \in available

\* A build exit returned from the generated function.
Exit(s) ==
    /\ pc' = "host"
    /\ stop' = s

-----------------------------------------------------------------------------
Init ==
    /\ eip \in Address
    /\ encoding \in Encoding
    /\ available \in Mapping
    /\ count = 0
    /\ limit = 0
    /\ pc = "host"
    /\ start = eip
    /\ mode = "direct"
    /\ cursor = 0
    /\ bytewise = 0
    /\ stop = Stopped("idle")
    /\ budget = 0
    /\ spent = 0

\* Between runs the host sets eip or writes guest memory, or the page table.
WriteGuest ==
    /\ pc = "host"
    /\ eip' \in Address
    /\ encoding' \in Encoding
    /\ UNCHANGED <<available, counters, decoder, pc, stop>>

Remap ==
    /\ pc = "host"
    /\ available' \in Mapping
    /\ UNCHANGED <<eip, encoding, counters, decoder, pc, stop>>

RunCpu(instructionBudget) ==
    /\ pc = "host"
    /\ limit' = Plus(count, instructionBudget)
    /\ budget' = instructionBudget
    /\ spent' = 0
    /\ pc' = "run"
    /\ stop' = Running
    /\ UNCHANGED <<guest, count, decoder>>

-----------------------------------------------------------------------------
\* buildInstructionLimitExit: count - limit is not negative as a signed value.
LimitReached == Minus(count, limit) < HalfModulus

EnterRun ==
    /\ pc = "run"
    /\ start' = eip
    /\ pc' = "head"
    /\ UNCHANGED <<guest, counters, mode, cursor, bytewise, stop>>

CheckLimit ==
    /\ pc = "head"
    /\ IF LimitReached
       THEN Exit(Stopped("instructionLimit"))
       ELSE pc' = "window" /\ UNCHANGED stop
    /\ UNCHANGED <<guest, counters, decoder>>

BeginDecode(decodeMode) ==
    /\ mode' = decodeMode
    /\ cursor' = 0
    /\ bytewise' = 0
    /\ pc' = "decode"

\* resolveDirect also refuses a window whose frames are not sequential.
ProveWindow ==
    /\ pc = "window"
    /\ \/ /\ RangeAvailable(start, InstructionLengthLimit)
          /\ BeginDecode("direct")
       \/ /\ pc' = "exact"
          /\ UNCHANGED <<mode, cursor, bytewise>>
    /\ UNCHANGED <<guest, counters, start, stop>>

EnterExactInstruction ==
    /\ pc = "exact"
    /\ start' = eip
    /\ IF LimitReached
       THEN /\ Exit(Stopped("instructionLimit"))
            /\ UNCHANGED <<mode, cursor, bytewise>>
       ELSE BeginDecode("exact") /\ UNCHANGED stop
    /\ UNCHANGED <<guest, counters>>

-----------------------------------------------------------------------------
Decoding(decodeMode) ==
    /\ pc = "decode"
    /\ mode = decodeMode
    /\ cursor < encoding.length

\* Prefixes and the opcode byte are read one by one, then encoded values.
NextReads ==
    IF cursor <= encoding.prefixes
    THEN {1}
    ELSE {w \in {1, 2, 4} : cursor + w <= encoding.length}

\* Slip: the offset before the prefix compared, not the one after it.
LeavesDirectLate ==
    cursor < encoding.prefixes /\ cursor > MaximumDirectPrefixes

\* readDirectByte and readDirectEncoded check nothing; PrefixDecoder leaves
\* direct mode after a prefix that no longer leaves room for any suffix.
LeavesDirect ==
    cursor < encoding.prefixes /\ cursor + 1 > MaximumDirectPrefixes

ReadDirect(width) ==
    /\ Decoding("direct")
    /\ width \in NextReads
    /\ cursor' = cursor + width
    /\ pc' = IF LeavesDirect THEN "exact" ELSE "decode"
    /\ UNCHANGED <<guest, counters, start, mode, bytewise, stop>>

ReadExactByte ==
    /\ Decoding("exact")
    /\ bytewise > 0 \/ 1 \in NextReads
    /\ \/ /\ cursor >= InstructionLengthLimit
          /\ Exit(Stopped("generalProtection"))
          /\ UNCHANGED <<cursor, bytewise>>
       \/ /\ cursor < InstructionLengthLimit
          /\ At(cursor) \notin available
          /\ Exit(PageFault(At(cursor)))
          /\ UNCHANGED <<cursor, bytewise>>
       \/ /\ cursor < InstructionLengthLimit
          /\ At(cursor) \in available
          /\ cursor' = cursor + 1
          /\ bytewise' = IF bytewise > 0 THEN bytewise - 1 ELSE 0
          /\ UNCHANGED <<pc, stop>>
    /\ UNCHANGED <<guest, counters, start, mode>>

\* Slip: only the first byte of the value compared with the length limit.
WithinLimitAtFirstByte(width) == cursor < InstructionLengthLimit

\* A value that crosses the length limit, or whose range is refused, is read
\* again byte by byte.
WithinLimit(width) == cursor <= InstructionLengthLimit - width

ReadExactEncoded(width) ==
    /\ Decoding("exact")
    /\ bytewise = 0
    /\ width \in NextReads \ {1}
    /\ IF WithinLimit(width) /\ RangeAvailable(At(cursor), width)
       THEN cursor' = cursor + width /\ UNCHANGED bytewise
       ELSE bytewise' = width /\ UNCHANGED cursor
    /\ UNCHANGED <<guest, counters, start, mode, pc, stop>>

-----------------------------------------------------------------------------
Decoded(effect) ==
    /\ pc = "decode"
    /\ cursor = encoding.length
    /\ encoding.effect = effect

\* Slip: a dispatched jump completes without charging itself.
PublishJumpFree(target) ==
    /\ eip' = target
    /\ encoding' \in Encoding
    /\ LET charge == IF encoding.effect = "jump" THEN 0 ELSE encoding.units IN
       count' = Plus(count, charge) /\ spent' = spent + charge
    /\ UNCHANGED <<available, limit, budget>>

\* Completion publishes eip and the advanced count.
Publish(target) ==
    /\ eip' = target
    /\ encoding' \in Encoding
    /\ count' = Plus(count, encoding.units)
    /\ spent' = spent + encoding.units
    /\ UNCHANGED <<available, limit, budget>>

\* loopContinue in the run loop, a tail call of run in the exact function.
Continue(target) ==
    /\ IF mode = "direct" THEN pc' = "head" /\ start' = target
                          ELSE pc' = "run" /\ UNCHANGED start
    /\ UNCHANGED stop

\* Slip: the signed comparison of the loop head after an instruction too.
CrossedDeadlineSigned == Minus(count', limit) < HalfModulus

\* continueInterpreter compares distances from the count at entry, since one
\* REP can pass the limit by more than half the modulus.
CrossedDeadline ==
    Minus(count', count) >= Minus(limit, count)

FallThrough ==
    /\ Decoded("fallthrough")
    /\ Publish(At(encoding.length))
    /\ IF CrossedDeadline
       THEN Exit(Stopped("instructionLimit")) /\ UNCHANGED start
       ELSE Continue(At(encoding.length))
    /\ UNCHANGED <<mode, cursor, bytewise>>

\* A dispatched jump continues without looking at the deadline.
Jump(target) ==
    /\ Decoded("jump")
    /\ Publish(target)
    /\ Continue(target)
    /\ UNCHANGED <<mode, cursor, bytewise>>

HostTrap ==
    /\ Decoded("trap")
    /\ Publish(At(encoding.length))
    /\ Exit(Stopped("trap"))
    /\ UNCHANGED decoder

\* A fault path restores eip and count to the start of the instruction.
Raise ==
    /\ \E effect \in {"exception", "segmentLoad"} :
          Decoded(effect) /\ Exit(Stopped(effect))
    /\ UNCHANGED <<guest, counters, decoder>>

-----------------------------------------------------------------------------
GeneratedCode ==
    \/ EnterRun \/ CheckLimit \/ ProveWindow \/ EnterExactInstruction
    \/ ReadExactByte
    \/ \E width \in {1, 2, 4} : ReadDirect(width) \/ ReadExactEncoded(width)
    \/ FallThrough \/ HostTrap \/ Raise
    \/ \E target \in Address : Jump(target)

Next ==
    \/ WriteGuest \/ Remap
    \/ \E instructionBudget \in 0 .. MaximumBudget : RunCpu(instructionBudget)
    \/ GeneratedCode

\* The engine runs a generated function until it returns.
Spec == Init /\ [][Next]_vars /\ WF_vars(GeneratedCode)

-----------------------------------------------------------------------------
TypeOK ==
    /\ eip \in Address
    /\ encoding \in Encoding
    /\ available \in Mapping
    /\ count \in Counter
    /\ limit \in Counter
    /\ pc \in {"host", "run", "head", "window", "exact", "decode"}
    /\ start \in Address
    /\ mode \in {"direct", "exact"}
    /\ cursor \in Nat
    /\ bytewise \in 0 .. 4
    /\ budget \in 0 .. MaximumBudget
    /\ spent \in Nat
    /\ pc = "host" <=> stop # Running

(***************************************************************************)
(* While a run is under way the modular counters tell exactly how much of  *)
(* the budget is left, and the code is never inside an instruction it had  *)
(* no budget for; a REP that passes the limit by more than half the        *)
(* modulus is never looked at by the signed comparison of the loop head.   *)
(***************************************************************************)
DeadlineAhead ==
    pc # "host" =>
        /\ spent <= budget
        /\ Minus(limit, count) = budget - spent
        /\ pc \in {"window", "exact", "decode"} => spent < budget

(***************************************************************************)
(* Direct mode reads no byte outside the window it has proved: the comment *)
(* in stream.ts that PrefixDecoder leaves direct mode before any suffix    *)
(* could exceed the resolved range.                                        *)
(***************************************************************************)
DirectReadsInsideWindow ==
    [][\A width \in {1, 2, 4} :
          ReadDirect(width) =>
             RangeAvailable(start, InstructionLengthLimit)
             /\ cursor' <= InstructionLengthLimit]_vars

\* Fallbacks, windows and modular counters are invisible: a run is a sequence
\* of whole instructions, each fetched as if byte by byte, none of them started
\* once the budget is spent, and none skipped or repeated by a fallback.
Execution == INSTANCE InstructionExecution

InstructionAtATime == Execution!Spec

\* Every run returns to the host: the two functions cannot tail-call each other
\* forever without executing instructions.
EveryRunStops == stop = Running ~> stop # Running
=============================================================================
