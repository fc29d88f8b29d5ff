# wasm86 in TLA+

wasm86 runs 32-bit x86 code in a WebAssembly engine. It is a compiler in
TypeScript: instruction semantics are lowered to functions of an internal
representation, those are scheduled and emitted as WebAssembly, and the
generated functions run over three memories (CPU state, machine memory with the
page table, RAM). What is checked here is the part of that where a wrong step
is silent: the bookkeeping the lowering does about architectural state, the
generated code for virtual memory, the interpreter's generated run loop, and
the compiler itself, from integer values and regions to emitted code.

Paths below are relative to `src/src/`.

## The system

| Component | State | Operations | Talks to |
|---|---|---|---|
| Register tracker, `instructions/lowering/state/gpr.ts`, `pending-buffer.ts` | pending values by channel, dirty marks, boundary, cached reads, `unrestorableStore` | `read`, `write`, `readDynamic`, `writeDynamic`, `beginInstruction`, `flushesForPath`, `invalidate`, `snapshot`/`restore` | called by instruction semantics through the lowering; emits loads and stores of CPU state |
| State fields, `field-tracker.ts`, `eip.ts`, `instruction-count.ts`, `segments.ts`, `flags.ts` | the same buffer for fields that never alias; pending increments of the count | `read`, `write`, `publishForReads`, `increment`, `beginInstruction` | same callers; status-flag resolvers read published fields |
| Lazy status flags, `core/flags/lazy/` | in memory a record of the last result or a byte per flag; in the tracker a backing per flag, the last source, resolved inputs | `read`, `condition`, `write`, `writeSource`, `resetToInputs`, `snapshot`/`restore`, host read and write | field tracker, generated resolver functions, condition codes, host view |
| Structured control, `lowering/control.ts`, `loop.ts`, `state/loop-scope.ts` | join variables per channel, loop variables, write log | `if`, `ifElse`, `loop`, side exits | snapshots and restores the trackers |
| Virtual memory, `memory/virtual/` | page table in machine memory; a one-entry page cache in function locals | `resolve`, `resolveDirect`, `load`, `store`, scattered forms, host `initializeIdentity`, `readVirtualByte` | every instruction with a memory operand; instruction fetch |
| Interpreter, `interpreter/` | `instructionStart`, cursor, fetch mode | two generated functions, `interpreter.run` and `interpreter.run.exact-instruction` | virtual memory for fetch, decoder model, lowered instructions |
| Cpu, Machine, `cpu/`, `machine/` | count and limit fields, memories | `Cpu.run(instructionBudget)` | calls `interpreter.run`, decodes its exit |
| JIT, `jit/` | a snapshot of instruction bytes | `decodeJitBlock`, `buildJitBlockBody` | decoder, lowering; not wired into `Cpu` |
| Decoder and ISA, `instructions/decoder/`, `instructions/isa/`, `instructions/semantics/` | none (tables built once) | decode a byte sequence; semantics per mnemonic | interpreter, JIT |
| Function and program builder, `compiler/function/`, `compiler/program/` | regions under construction, interned values | build regions, fold and simplify integers, collect functions | everything that generates code |
| Layouts, `compiler/layout/` | none | place fields, pack and unpack variants | CPU state, flags, exits |
| Wasm backend, `compiler/wasm/` | the body under construction, the views of each value, demands and evaluations, claims on locals, open labels | lower regions and values, place evaluations, schedule, allocate locals, emit | function builder before it, encoder after it |
| Encoder, `wasm/encoder/` | a byte sink | LEB128, sections, instructions | engine |

Nothing runs concurrently: the WebAssembly engine runs one generated function at
a time, on behalf of one call of `Cpu.run`. What makes the system hard is
elsewhere. The trackers run *while code is generated* and must describe every
path of the generated function at once; an instruction that faults must leave
memory as if it had not begun, although part of its results is stored already;
the fast path of the fetch reads bytes nobody checks; counters and addresses are
modular; and `assert` (`common/assert.ts`) is empty in production builds, so an
internal inconsistency goes on as wrong guest state. The list of these hazards,
each at its line, is in `PROJECT.json`.

## Modules

| Module | Models | Kind |
|---|---|---|
| `RegisterFile` | an instruction as a transaction on registers that alias bytewise | abstract |
| `GprState` | the register tracker along one path of a generated function | detailed, implements `RegisterFile` |
| `PagedMemory` | a range granted or refused as a whole by its page-table entries | abstract |
| `VirtualMemory` | resolution functions, page cache, direct and scattered transfers, host operations | detailed, implements `PagedMemory` |
| `InstructionExecution` | a run as a sequence of whole instructions fetched bytewise | abstract |
| `InterpreterRun` | the two generated functions, the byte stream and the modular deadline | detailed, implements `InstructionExecution` |
| `StatusFlagFile` | flags that are always up to date | abstract |
| `StatusFlagTracker` | lazy flags and the field tracker along one path, REP loops, the host view | detailed, implements `StatusFlagFile` |
| `StatusFlagValues` | what arithmetic, shift and rotate instructions compute, and their flags | algorithms |
| `StructuredState` | the register tracker across arms, joins and loops; extends `GprState`, implements `RegisterFile` | composition |
| `IntegerArithmetic` | the integer operations of the compiler at one width | algorithms |
| `WordBits` | a word and its bits: and, or, xor | algorithms |
| `SourceValues` | integer values as functions are written, and their simplification | algorithms |
| `ValueResolver` | the table of what every written value is resolved to | detailed |
| `RequiredBits`, `WasmValues` | word instructions, the bits a word may need, what may be speculated | algorithms |
| `WasmValuesBuilder` | the graph of word instructions as it is built, with one execution of it | detailed |
| `ValueLowering` | narrow integers to words: views, demands, low bits; extends `ValueResolver` | composition of the above |
| `StructuredBody` | a function body as a stream of sites in nested blocks | shared vocabulary |
| `FunctionLowering` | regions to a body | pipeline, first phase |
| `ValuePlacement`, `WasmSchedule` | where each value is evaluated, and which locals that takes | algorithms |
| `LocalAllocation` | claims to locals, one at a time | pipeline, second phase |
| `CodeEmission` | the code of a scheduled body | algorithm |
| `BodyExecution` | what a body means | abstract |
| `WasmExecution` | an engine for the emitted code | external |
| `WasmCompilation` | the pipeline, with an execution of the body beside one of its code | composition |
| `ModularArithmetic` | lemmas on `%` and `\div` used by the proofs | lemmas |
| `StructuredStateProofs`, `StatusFlagTrackerProofs`, `StatusFlagValuesProofs`, `VirtualMemoryProofs`, `InterpreterRunProofs`, `LocalAllocationProofs` | theorems about the module each is named for; those about `GprState` are in the first | proofs |
| `IntegerValuesProofs` | theorems about `WasmValuesBuilder` and `ValueResolver` | proofs |
| `MCGprState`, `MCVirtualMemory`, `MCInterpreterRun`, `MCStatusFlagTracker`, `MCStatusFlagValues`, `MCStructuredState`, `MCValueLowering`, `MCWasmValuesBuilder`, `MCWasmCompilation` | instances for TLC | model checking |

Operators whose comment starts with "Slip:" are not part of a model. Each is a
variant of the definition after it with one plausible mistake, kept beside it to
show which property notices the mistake.

### GprState

The tracker decides at lowering time which loads and stores a path contains.
The model follows one path and performs each store on `mem` when the tracker
emits it. `entries` and `dirty` are `PendingBuffer.#entries`, `reads` is
`GprState.#reads`. The boundary is two variables, its keys and the bytes that
writing it back in insertion order stores; the second is enough because the
boundary is only ever extended and then written. `phase` says where the path
stands: "checking" from `beginInstruction` until nothing can raise any more,
"committing" until completion, then "between" instructions. `Fault` is
`flushesForPath("fault")`, `Publish` is `flushesForPath("completed")`. Both end
the path: `enterScope` restores the tracker for the code after a side exit.

`Write` has two outcomes when the written value equals the cached read, because
the code compares value nodes (`sameValue`) and equal contents may come from
different nodes.

`Semantics = "shipped"` is the order in which the shipped instruction semantics
use the tracker. It was read off `instructions/semantics/`: while an instruction
can still raise, it writes a register name only after reading that name, and
writes no second overlapping name. `Semantics = "any"` drops the rule, and
`BoundaryRestoresStart` does not hold then: read eax, write eax, read ax (stores
eax, caches the new ax), write ax, read eax (stores ax). The cached read of ax is
a value of the running instruction; it joins the boundary, and a fault restores
it. No shipped instruction does this before its last fault.

### StructuredState

The same tracker where a function has arms and loops. The path that is followed
goes through one arm of an `if` and takes a loop some number of times; `scopes`
is the stack of `enterScope` with the tracker each scope was opened with, `log`
the `StateWriteLog`. Lowering knows both arms when it builds the join, so
`LeaveArm` takes what the sibling wrote (`sibling`) as a choice, stores the
missing channels on this path, puts the snapshot back and invalidates all joined
channels. What the instruction has written, which `Semantics = "shipped"` is
about, is kept per path too: after the join it is what was written before the
arm and the joined channels. `EnterLoop` chooses the channels the dry run of the body found;
`ContinueLoop` writes the carried names back and makes the top of the iteration
the boundary. `Iterate` of `RegisterFile` is that moment in the abstract
transaction. A read in a loop body of a channel that is not carried is placed in
front of the loop (`resourceReadPlacement`) while a store stays in the body, so
the model reads such a channel from the memory the loop was entered with.

The shipped instructions with structured control over registers are CMPXCHG,
CMPXCHG8B and the REP forms. `Settled` is what they have in common: an arm writes
a register by a name the instruction read before the arm, of which it has written
no other part. `Programs = "aligned"` leaves out blocks in which an arm or a loop
body reads a register by a name overlapping a pending one; two things go wrong
there, see *Findings*.

### VirtualMemory

A request has the form the code distinguishes by type: "static" (constant
length, at most a page) or "general", and "detailed" (`resolve`) or "direct"
(`resolveDirect`). `Resolve` is the inlined first-page lookup and the helper
call; the loop of the general helper is one action per page (`WalkPage`). The
result word is a record with the fields the code packs into bits. `Transfer` is
a load or store after the resolution, contiguous or byte by byte. Addresses are
`0 .. PageSize * PageCount - 1` and wrap there, as 32-bit addresses do.
`Remap` is the embedder writing the page table between two invocations.

### InterpreterRun

`pc` names the points of the two generated functions: "run" and "head" in
`buildRunBody`, "window" where the 15-byte window is proved, "exact" in
`buildExactInstructionBody`, "decode" inside the decoder. One action per read of
the byte stream. What an opcode does is abstracted to `effect` and to the number
of count units (`units`, more than one for REP only); the bytes at `eip` are
abstracted to the shape of the encoding they hold, chosen anew whenever `eip`
moves. `budget` and `spent` are history: what the host asked for, and the units
charged so far without wrapping.

### StatusFlagTracker

Memory (`mem`) holds the three record fields and one byte per flag; the byte
counts only while the record's kind is "none". `fields` is the
`StateFieldTracker`, `status` the `StatusFlagTracker`; both work while code is
generated, so, as in `GprState`, the model follows one path and makes each store
when the tracker emits it. Asking a resolver function for a flag first stores
the dirty fields the function reads (`publishForReads`); a fault writes the
boundary back. A write of the value a flag or a field already has may or may not
be recognised, because the code compares value nodes.

A REP is the only shipped instruction that sets flags inside structured control.
Its arm and its loop are generated from copies of the tracker, and the code
after them from what `FieldsAfterJoin` and `StatusAfterJoin` leave. The model
takes the stores of the arm or the iteration really executed, and the tracker
state the code is generated with: `outer` is what the arm's snapshot restores,
and `Again` returns to the tracker of the loop top. `Iterate` sets the flags
from a subtraction, as CMPS and SCAS do.

A condition over flags that are still in memory is a `switch` over the captured
record. Only its default arm calls resolvers, yet `publishForReads` marks the
fields clean in the one tracker state that the code after the switch is
generated with. `DefaultArmIsInvisible` says why this is sound.

### StatusFlagValues

The formulas of `core/flags/values.ts` over the operands and the result, with
the integer operations of `compiler/function/values/integer/evaluate.ts` they
use, and the instructions that call them. Two steps make a behaviour: the choice
of an instruction with its first operand and the flags before, and its
execution. The three flags a logic result does not take from the result are
false, AF among them, which is how the code resolves an undefined AF. SAR by
more than the width leaves CF as it was; nothing in the repository says what it
should be, so no property does. The module takes widths 8, 16 and 32; the run has
the first two and the proofs all three.

### ValueResolver

A value is an expression over values. `ValueResolver.resolve` simplifies each
once, over what its operands are resolved to, and keeps the answer; `resolution`
is that table. `meaning` is beside the code: the word of every value, for each
choice of the sources' words, evaluated as the value is written (`Evaluate`) and,
for what it is resolved to, as that stands. `SimplificationKeepsValue` compares the
two wherever the written value is defined; a division by zero may be replaced by
anything. An action writes one value through a method of `IntegerValue`. The
count of a shift may become an extension that nobody wrote, and is resolved before
the shift.

### WasmValuesBuilder

`nodes` is the graph of word instructions, `requiredBits` what is derived of
each node when it is made, `cannotSpeculate` the nodes that may not be executed
where nobody wants them. One action per method of the builder. A node that exists
is not made again (`Intern`), except outputs of producers and inputs of loops
(`Occurrence`); a parameter may be declared again with other bits
(`RedeclareParameter`), which changes what is kept of that node and of no other.
`JoinOutput` declares of the value after a control what is known of all of its
arms. `words` is one execution: an instruction computes its word from those of
its inputs, a source has any word that what was declared of it allows.

### ValueLowering and what it uses

A narrow integer lives in a word whose upper bits may be anything. A behaviour
writes values over a few sources (`Write`, a step of `ValueResolver`),
then asks for some of them the way the lowerer's callers do
(`AskValue`, `AskView`, `AskCondition`, `AskStore`); each answer is a `WasmValues`
node, and what exists already decides it, since views are kept per value. Both
the source value and the node are evaluated at every chosen input: the value
(`meaning`) through `IntegerArithmetic`, the node (`WordOf`) by what its
WebAssembly instruction computes. `RequiredBits` bounds the words of a node; the
lowering leaves out masks and extensions on its word, so a bound too small is a
wrong result. Here a node is a tree, which is what interning makes of the graph
`WasmValuesBuilder` builds.

The widths are scaled: words of 8 and 16 bits stand for 32 and 64, 4 for the
narrow widths, and no operator mentions a width by its number.

### WasmCompilation

`FunctionLowering` builds a body site by site: what is met next is any choice of
its `Families` entry, and a site of a control is reserved and written when its
children are lowered. `ValuePlacement` and `WasmSchedule` are functions of the
finished body, as the planner's phases are; `LocalAllocation` then takes one claim
a step, `CodeEmission` is one pass over the sites, and `Execute` runs the body
and its code from the same memory and parameter. `BodyExecution` evaluates each
value where it is wanted and knows nothing of placement; it is the abstract
specification of the pipeline, and `SameBehaviour` states the refinement as an
invariant because both executions are whole functions: the way they end must
agree, and unless that is a trap the result and the trace of stores and calls. `WasmExecution` remembers
whose value a local holds, for `SharingIsInvisible`.

## Runs

| Run | Instance | Shows |
|---|---|---|
| `gpr_shipped` | eax/ax/al/ah over three bytes, two byte values | `Coherent`, `BoundaryRestoresStart`, `FaultsAreRestorable`, refinement of `RegisterFile` |
| `virtual_memory` | 3 pages of 4 bytes, static lengths 1-4, general lengths 0, 2, 5, 9 | `CacheCoherent`, `WalkInsideRange`, refinement of `PagedMemory` |
| `interpreter_fetch` | length limit 6, suffix at most 4, 8 addresses in mapped pairs, budget 1 | `DirectReadsInsideWindow`, refinement of `InstructionExecution` |
| `interpreter_budget` | modulus 8, budgets 0-3, REP units 1-7, several runs | `DeadlineAhead`, and `EveryRunStops` |
| `status_flags` | flags OF and ZF, one-bit operands, conditions E, LE, O | `BackingsMatchRecord`, `BoundaryRestoresFlags`, `DefaultArmIsInvisible`, refinement of `StatusFlagFile` |
| `flag_values` | width 8 with all operands, width 16 with eleven, counts 0-33 | `FlagsAreArithmetic`, `ShiftsBitByBit`, `RotatesBitByBit`, `ConditionsAreComparisons` |
| `structured_state` | ax/al/ah over two bytes; one arm open at once, two scopes, two iterations, four accesses a path | `Coherent`, `BoundaryRestoresStart`, `FaultsAreRestorable` and the refinement of `RegisterFile` across arms and loops |
| `loop_reads` | the same with `Programs = "any"` | `LoopReadsAreCurrent` is violated: see *Findings* |
| `value_lowering` | seven families; words 8 and 16, narrow 1 and 4 | `TypeOK`, `SimplificationKeepsValue`, `LoweringIsExact`, `LowBitsAreExact`, `UsesAreExact` |
| `wasm_values` | words of 4 and 8 bits, three nodes, each type with three declarations | `TypeOK`, `RequiredBitsSuffice`, `SpeculationIsSafe` |
| `wasm_compilation` | families with and without loops, up to 9 sites, two back edges | `SameBehaviour`, `NoInterference`, `NoLocalWasted`, `UsesAreServed`, `NoExtraLoads`, `SharingIsInvisible` |
| `wasm_loop_traps` | a division wanted in an arm inside a loop and after it | `UnsafeStaysSelected` is violated: see *Findings* |

Why the bounds are enough. One 32-bit register shows every alias relation of the
ISA: cover (eax over ax), partial overlap by cover (ax over al), disjoint (al
and ah); bytes 2 and 3 always move together. Two byte values suffice because
contents are compared and copied, never computed with. Three pages let a range
stay, cross one boundary, cross two, start in the last page and wrap; four bytes
per page make 2- and 4-byte ranges aligned and unaligned. With limit 6 and
suffix 4 the prefixes cross the direct limit (2), the length limit and beyond,
and every window position against the end of the address space occurs. Modulus 8
with REP units up to 7 passes the deadline by more than half the modulus from
every distance.

Two flags are one that a logic result clears and one it takes from the result;
the third kind, left undefined, reads as zero like the first, and has no
instance (`Undefined` is empty). One-bit operands make both flags take both
values after an addition and a subtraction. The three conditions are one that is
a comparison after two kinds, after one kind, and never. The flag formulas use
the width only through the top bit, so width 8 with every operand shows every
case of them; double shifts exist at widths 16 and 32, and 32 is beyond TLC's
integers.

In `MCStructuredState` ax over al and ah shows cover and disjointness, and two
scopes one after the other or a loop in an arm are the shapes the shipped
semantics build. Four accesses are what it takes to make a name pending, read it
in a scope, write it and read it after the join. A path ends when its bound on
accesses is reached.

The families of `MCWasmCompilation` and `MCValueLowering` each bound one part of
the code and leave the others out; their comments say what they aim at. Eight or
nine sites hold two nested controls with an event in each, or a loop with two
events before, in and after it. Two back edges show a value that is wanted two
iterations after it was made. Words of three bits and cells of two make a sign
extension matter; inputs of the value families lie around the ends of every
width.

In `MCWasmValuesBuilder` constants and sources are 0, 1, the least signed
number and -1; a source is declared to need all bits, to be 0 or
1, or to be 0 or -1. Three nodes are an instruction over two others, which is what
the derivation of bits looks at; that deeper graphs add nothing is proved.

State views leave out variables that the next action overwrites before anything
reads them; the comment of each view says which. Byte values are symmetric in
`MCGprState`.

Fairness: `InterpreterRun` assumes `WF_vars(GeneratedCode)`. A WebAssembly engine
runs a called function until it returns; no host code runs in between. Nothing
is assumed of the host, which may stop calling `run` for ever.

## Findings

**A division is hoisted out of a loop** (run `wasm_loop_traps`). The comment at
`compiler/wasm/plan/placement.ts:187` says unsafe evaluations stay within
selected arms. `#placeExpressionUses` keeps to it where the site that dominates
the uses is an `if` or a `switch`. Where it is a loop, with one use in an arm of
the body and one after the loop, the value is captured in front of the loop, and
traps on a path that wants it nowhere.

**A read in a loop passes the store it needs** (run `loop_reads`).
`lowering/state/loop-scope.ts:113-115` explains why reads of channels a loop does
not carry may stand in front of it. When an overlapping name of the register is
pending, the tracker stores it before the read; that store goes to the body and
the read to the entry, and the read finds the old contents. `xor eax, eax; rep
stosb` in one block is such a program. The interpreter lowers one instruction per
function and begins it with nothing pending.

**A flush in an arm is forgotten** (excluded by `Programs = "aligned"`, no run).
An arm that only reads a name overlapping a pending one stores it, on its path
alone. The store is not in the write log, the snapshot put back afterwards still
has the name pending, which is harmless, and still caches the contents memory had
before, which is not: a later write of exactly those contents is taken for a
return to the input and dropped together with the pending entry
(`gpr.ts:297`). In one block: `mov dl, bl; mov bl, 1; cmpxchg8b m; mov bl, dl`
leaves 1 in bl on the path through the arm that reads ebx.

The last two need several instructions in one generated function, that is, JIT
blocks, which `Cpu` does not run today.

## Proofs

All theorems are proved by TLAPS for every value of the constants, from the
`ASSUME`s of the modules alone: every extent is a nonempty set of bytes; a page
is a positive multiple of four bytes and there are at least two pages; a static
request fits in a page; the suffix bound is between 1 and the length limit;
address and counter ranges are not empty; a condition reads at least one flag,
and whether it holds depends on the flags it reads (`conditions.ts` lists them);
operands are numbers of their width, which is 8, 16 or 32; the word of the
compiler's integers is 4, 8, 16 or 32 bits, its double word twice that, narrow
integers are narrower, and what is declared of a source passes the assertion of
`required-bits.ts`. The theorems on the boundary and on arms and loops in
`StructuredStateProofs` have the driving rules as hypotheses:
`Semantics = "shipped"`, and for arms and loops `Programs = "aligned"`.

- `StructuredStateProofs`, the tracker without structured control (`GprState`).
  `TrackerCoherent`: `Coherent` is not inductive alone, since
  what is overlaid on memory must be typed and unambiguous; the invariant adds
  `TypeOK`. `FaultUndoesInstruction` needs to know where the pre-instruction
  bytes are: the invariant says that outside the boundary memory is still what it
  was when the instruction began, that a cached read of a name not yet written
  is a pre-instruction value, and that a dirty entry outside the boundary belongs
  to a name this instruction read. The shipped rule is what makes it inductive.
  `TrackerImplementsRegisterFile` maps each tracker step to one step of
  `RegisterFile`; flushes change nothing there because `Registers` is the file
  with the dirty values laid over it.
- `StructuredStateProofs`, for `StructuredState` and any nesting of arms and loops. `ScopesKeepCoherence`,
  `FaultUndoesIteration` and `ScopesImplementRegisterFile` are consequences of one
  invariant, `StructuredInv`. What `GprState` needs of the tracker in use is not
  enough here: leaving an arm puts its snapshot back, at a later memory, so the
  invariant relates every snapshot to the present (`Chain`). The pending stores are
  those of the snapshot, except for names the log has gained and what overlaps
  them (`Follows`), and memory has moved only where stores of such names moved it
  (`Held`); the join forgets just these names. For a loop (`LoopFits`), memory is
  what it was at the entry, what the top has pending stays pending, and only
  carried names change value. While the instruction can still raise, an arm has
  written nothing, and what it read before is recoverable from the snapshot
  (`ArmsUndoable`). `StructuredTypeOK` (`ScopesTyped`) is the smallest part.
  `AlignedLoopReadsAreCurrent` proves, for these programs, the statement
  `LoopReadsAreCurrent` that run `loop_reads` refutes for all.
- `StatusFlagTrackerProofs`. `TrackerType`, `BackingsAgree`, `RaiseRestoresFlags`,
  `DefaultArmInvisible` and the refinement `FlagsAreEager` follow from `TrackerInv`.
  `BackingsMatchRecord` compares two accounts of the flags, the backings and what
  memory says after the pending stores; it is not inductive, because it does not
  say which stores are pending. The invariant does: all flags come from memory,
  or all from the last result, or all from bytes written here, and while they
  come from memory nothing of the record is pending and what is pending is in the
  boundary. That is also what makes the default arm of a record `switch`
  invisible: the only clean field whose entry may differ from memory is a flag
  byte that the pending record hides. The boundary laid over memory must give the
  flags of the start of the instruction, which REP moves to the top of each
  iteration, and the tracker a REP goes back to must hold at the memory of the
  time (`OuterKept`).
- `StatusFlagValuesProofs`. `FlagsOfArithmetic` and `ConditionsCompareOperands`
  hold for every operand of 8, 16 and 32 bits; at 32 they are beyond TLC's
  integers. The carry of bit 3 into bit 4 is recovered from the exclusive-or of the
  three fourth bits because result and unbounded sum agree modulo 32
  (`NibbleCarry`, `NibbleBorrow`); the rest is linear arithmetic over operands and
  result, once the top bit is known to be the sign (`MsbIsSign`). Parity is
  modelled by counting bits and has no other definition to be compared with.
  `ShiftsOfSingleBits` and `RotationsOfSingleBits` are inductions on the count.
  The runs of the recursive `MovedTimes` are shown to exist (`MovedTimesIsRun`), and
  the word after n moves has a closed form, the n or the width less n bits of two
  words side by side (`Left`, `Right`), which one more move extends by a bit
  (`LeftStep`, `RightStep`, from `Doubling` and `Halving` in `ModularArithmetic`).
  Every instruction is a choice of the word that moves in: zeros, copies of the sign
  (`SignFill`), the source, or the word itself; through the carry the word is one bit
  wider (`RingRotates`). The library states induction for an operator, which the
  provers cannot instantiate; here it is stated for a set of naturals
  (`ReachesAll`), from the least element outside it. The invariant, `OutcomeInv`,
  says that the outcome is what the code computes for the task.
- `VirtualMemoryProofs`. `ResolutionState` and `WalksStayInRange`: types, the page
  cache, and the range of the walk.
  `ResolutionIsBytewise`: the invariant of the walk says every page before the
  current one permits the access and is sequential unless `scattered`; a decoded
  word is then related to the bytes of the range page by page, through the
  lemmas on division in `ModularArithmetic`.
- `InterpreterRunProofs`. `RunState`: the modular distance from count to limit is
  `budget - spent`. `DirectReads` and `RunIsInstructionAtATime`: while decoding,
  every byte before the cursor was available, direct mode is inside its window,
  and a value read bytewise lies inside the instruction.
- `IntegerValuesProofs`, about `WasmValuesBuilder`. `ValuesAreWellTyped`, `BitsAreEnough` and
  `SpeculatingIsSafe` are consequences of one inductive invariant (`IInv`): every
  node takes earlier nodes of its types, its word lies in both of its ranges
  (`Suffices`), a constant has its own word, and a node that may be executed early
  traps only if an input has (`NodeOK`). Each rule of `required-bits.ts` is a
  lemma on words of any width (`BitwiseSuffices`, `BinarySuffices`,
  `SignExtensionSuffices`, `JoinSuffices` and others). Words are sums of their bits
  (`FromBitsIsSum`), and the recursive sum is shown to exist (`SumsExist`), as the
  runs of `MovedTimes` are. A parameter declared again keeps its word, which both
  declarations allow, so what was derived of later nodes before still holds.
- `IntegerValuesProofs`, about `ValueResolver`. `SimplifyingKeepsValues`: the
  property says nothing of how a value and what it is resolved to are built, so
  it is not inductive. The invariant, `ResolverInv`, adds that every value in the
  table is a well-shaped expression over values in the table (`Shaped`), that its
  word is one of its width and the one its operator computes (`Meant`), and that
  what it is resolved to is known, has its width, and its word wherever it has one
  (`Consistent`). A step is then: the expression over resolved operands replaces the
  written one (`OverResolvedOperands`), what the simplifier returns replaces that
  (`SimplificationReplaces`, one lemma for each of binary operations, comparisons,
  zero tests, selections and operations on one operand), and replacing is transitive
  (`ReplacedAgain`). Beneath are the identities the simplifier uses, for every width:
  `OperandAIsResult`, `OperandBIsResult`, `ZeroIsResult`, `SameCompared`,
  `ComparedWithZero`. `ValueLowering` takes the steps of `ValueResolver` and adds
  variables of its own, so the theorem says of it what run `value_lowering` checks.
- `LocalAllocationProofs`. `AllocationIsSafe` and `AllocationIsTight` hold for
  every sorted list of claims, of any length and over any types. A local's
  recorded end must be the end of one of its claims and not before the end of
  any; since claims come by their first sites, a local whose end lies before the
  current claim has no claim that meets it.

Proving corrected the models three times. In `StructuredState`, what the path had
written was not put back with the snapshot of an arm, and the join read it. Nothing
said that a condition depends only on the flags it reads. And `WasmValuesBuilder`
took only results of a join that fit the bits derived for it, which is what was to be
shown.

Only model-checked: liveness (`EveryRunStops`), which the prover cannot state; of
`ValueLowering` the results of lowering (`TypeOK`, `LoweringIsExact`, `LowBitsAreExact`,
`UsesAreExact`), because `Lower` is a recursive operator; and of the pipeline
`SameBehaviour`, `UsesAreServed`, `NoExtraLoads` and `SharingIsInvisible`, because
placement, emission and both executions are.

## Not modelled, and the plan

What is abstracted in the modules above: the values instructions compute, the
bit packing of words, formatting and error texts, assertions (empty in
production). Components without a module are listed with reasons in
`PROJECT.json`.

Of the components that have modules the following is left out: arms that yield a
value, registers chosen at run time inside an arm, and the dry run of a loop body
against its real lowering (`builder.ts:332`), which `StructuredState` replaces by
any set of carried channels; the fold of the instruction count; in the backend,
float nodes, tail calls, several results, and sections of the module; in the
function builder, its own checks.

Next, in this order:

1. proofs for the rest of the pipeline that is not recursive: the sites of
   `FunctionLowering`; then the lowering of values as a machine of single steps over
   the graph of `WasmValuesBuilder`, which `LoweringIsExact` could be proved of;
2. the instruction-count fold over a block, with eip and the side exits;
3. JIT block formation, the decode model against the encoding table;
4. layouts and the variant codec, LEB128, program collection;
5. string, stack and division semantics.
