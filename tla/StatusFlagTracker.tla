------------------------- MODULE StatusFlagTracker -------------------------
(***************************************************************************)
(* Lazy status flags (core/flags/lazy/tracker.ts over field-tracker.ts),   *)
(* followed along one path of a generated function, with the host view of  *)
(* the same memory between two functions.  Memory holds either one byte    *)
(* per flag or a record of the last arithmetic result (kind, a, b) from    *)
(* which a flag is derived when somebody asks.                             *)
(*                                                                         *)
(* The tracker is built while code is generated, so what it believes must  *)
(* hold on every path.  Where a path goes through one of several arms, the *)
(* model takes the memory effects of that arm and the tracker state the    *)
(* code after the join is generated with.                                  *)
(***************************************************************************)
EXTENDS Naturals

CONSTANTS
    Flag,       \* the status flags
    Cleared,    \* flags a logic result clears
    Undefined,  \* flags a logic result leaves undefined; they read as zero
    Operand,    \* arithmetic operands and results
    Derived,    \* Derived[s][f] is flag f after the result s
    Condition,  \* condition codes
    Truth,      \* Truth[cc] is the set of flag images on which cc holds
    Reads,      \* Reads[cc] is the set of flags cc depends on
    Direct      \* Direct[kind]: conditions that are a comparison of a and b

Kind == {"add", "sub", "logic"}
Bit == {0, 1}
Source == [kind : Kind, a : Operand, b : Operand]
Lazy == {"kind", "a", "b"}
Field == Lazy \cup Flag
Image == [Flag -> Bit]

ASSUME FlagAssumption ==
    /\ Flag \cap Lazy = {}
    /\ Cleared \subseteq Flag
    /\ Undefined \subseteq Flag
    /\ Operand # {}

ASSUME DerivedAssumption ==
    /\ Derived \in [Source -> Image]
    /\ \A s, t \in Source :
          s.kind = "logic" /\ t.kind = "logic" /\ s.a = t.a
             => Derived[s] = Derived[t]
    /\ \A s \in Source : \A f \in Cleared \cup Undefined :
          s.kind = "logic" => Derived[s][f] = 0

\* A condition reads at least one flag and depends on those it reads alone.
ASSUME ConditionAssumption ==
    /\ Truth \in [Condition -> SUBSET Image]
    /\ Reads \in [Condition -> (SUBSET Flag) \ {{}}]
    /\ Direct \in [Kind -> SUBSET Condition]
    /\ \A cc \in Condition : \A i, j \in Image :
          (\A f \in Reads[cc] : i[f] = j[f])
             => (i \in Truth[cc] <=> j \in Truth[cc])

VARIABLES
    mem,     \* the flag fields of cpu-state memory
    fields,  \* StateFieldTracker: pending entries, boundary, cached reads
    status,  \* StatusFlagTracker: backings, directSource, inputFlags
    outer,   \* <<fields, status>> to restore after the arm of a REP
    phase,   \* "exited", "between", "running", "looping", "iterated" or
             \* "committing"
    result,  \* what the last read or test returned
    saved    \* history: the flags a raise must return to

vars == <<mem, fields, status, outer, phase, result, saved>>

NoResult == << >>
NoSource == << >>
NoOuter == << >>

Put(f, c, v) == [x \in DOMAIN f \cup {c} |-> IF x = c THEN v ELSE f[x]]

Over(f, g) == [x \in DOMAIN f |-> IF x \in DOMAIN g THEN g[x] ELSE f[x]]

Without(f, S) == [x \in DOMAIN f \ S |-> f[x]]

On(f, S) == [x \in DOMAIN f \cap S |-> f[x]]

Holds(cc, image) == IF image \in Truth[cc] THEN 1 ELSE 0

\* What a resolver function (or the host) finds in memory m.
RecordIn(m) == [kind |-> m["kind"], a |-> m["a"], b |-> m["b"]]

ImageIn(m) ==
    [f \in Flag |-> IF m["kind"] = "none" THEN m[f] ELSE Derived[RecordIn(m)][f]]

-----------------------------------------------------------------------------
(***************************************************************************)
(* The field tracker.  A write that restores the cached read is recognised *)
(* when both are the same value of the function being built, so an equal   *)
(* value may or may not be.                                                *)
(***************************************************************************)
FreshFields == [entries |-> << >>, dirty |-> {}, boundary |-> << >>,
                reads |-> << >>]

\* Slip: the deleted entry still counted as dirty.
InvalidatedButDirty(t, S) ==
    [t EXCEPT !.entries = Without(@, S), !.reads = Without(@, S)]

Invalidated(t, S) ==
    [t EXCEPT !.entries = Without(@, S), !.dirty = @ \ S,
              !.reads = Without(@, S)]

Set(t, c, v) ==
    [t EXCEPT !.entries = Put(@, c, v), !.dirty = @ \cup {c}]

Writes(t, c, v) ==
    {Set(t, c, v)} \cup
    {[t EXCEPT !.entries = Without(@, {c}), !.dirty = @ \ {c}] :
        d \in {r \in DOMAIN t.reads : r = c /\ t.reads[r] = v}}

Tracked(t, m, c) ==
    IF c \in DOMAIN t.entries THEN t.entries[c]
    ELSE IF c \in DOMAIN t.reads THEN t.reads[c]
    ELSE m[c]

\* read: a miss is cached.
ReadOf(t, m, S) ==
    [t EXCEPT !.reads = [c \in DOMAIN @ \cup (S \ DOMAIN t.entries) |->
                            IF c \in DOMAIN @ THEN @[c] ELSE m[c]]]

\* Slip: the boundary of the previous instruction kept.
BoundaryKept(t) == t

MarkBoundary(t) == [t EXCEPT !.boundary = t.entries]

\* The fields a resolver call for the flags F makes the tracker store first.
Published(t, F) == t.dirty \cap (Lazy \cup F)

BoundaryAfterPublish(t, m, S) ==
    [c \in DOMAIN t.boundary \cup S |->
        IF c \in DOMAIN t.boundary THEN t.boundary[c]
        ELSE IF c \in DOMAIN t.reads THEN t.reads[c] ELSE m[c]]

Publishing(t, m, S) ==
    [t EXCEPT !.dirty = @ \ S,
              !.boundary = BoundaryAfterPublish(t, m, S),
              !.reads = Without(@, S)]

MemoryAfterPublish(t, m, S) == Over(m, On(t.entries, S))

\* Memory with every pending store made.
Pending(t, m) == Over(m, On(t.entries, t.dirty))

-----------------------------------------------------------------------------
(***************************************************************************)
(* The flag tracker.  A backing says where the current value of a flag     *)
(* comes from: an arithmetic result of this function, a value, memory      *)
(* ("input", read once and kept in inputs), or nothing.                    *)
(***************************************************************************)
InputBacking == [tag |-> "input"]
UndefBacking == [tag |-> "undef"]
SourceBacking(s) == [tag |-> "source", source |-> s]
ValueBacking(v) == [tag |-> "value", value |-> v]

FreshStatus == [backing |-> [f \in Flag |-> InputBacking],
                directSource |-> NoSource,
                inputs |-> << >>]

InputBacked(st) == {f \in Flag : st.backing[f].tag = "input"}

\* The flags whose value must be asked of a resolver function.
Unresolved(st, F) == (F \cap InputBacked(st)) \ DOMAIN st.inputs

ResolvedInputs(st, m, F) ==
    [st EXCEPT !.inputs =
        [f \in DOMAIN @ \cup Unresolved(st, F) |->
            IF f \in DOMAIN @ THEN @[f] ELSE ImageIn(m)[f]]]

Value(st, f) ==
    LET b == st.backing[f] IN
    CASE b.tag = "source" -> Derived[b.source][f]
      [] b.tag = "value"  -> b.value
      [] b.tag = "input"  -> st.inputs[f]
      [] b.tag = "undef"  -> 0

\* Slip: the cleared flags of a logic result left as they were.
BackingsKeepingCleared(st, s) ==
    [f \in Flag |->
        IF s.kind = "logic" /\ f \in Cleared THEN st.backing[f]
        ELSE IF s.kind = "logic" /\ f \in Undefined THEN UndefBacking
        ELSE SourceBacking(s)]

BackingsOf(st, s) ==
    [f \in Flag |->
        IF s.kind = "logic" /\ f \in Cleared THEN ValueBacking(0)
        ELSE IF s.kind = "logic" /\ f \in Undefined THEN UndefBacking
        ELSE SourceBacking(s)]

\* The record of a result replaces the flag bytes; a logic result has no b.
RecordWrites(t, s) ==
    LET cleared == Invalidated(t, Flag \cup {"kind"}) IN
    UNION {{Set(tb, "kind", s.kind) :
              tb \in IF s.kind = "logic" THEN {Invalidated(ta, {"b"})}
                                         ELSE Writes(ta, "b", s.b)} :
           ta \in Writes(cleared, "a", s.a)}

\* All flags stored as bytes; nothing of the record stays tracked.  The
\* tracker never reads a flag byte, so these writes are never recognised.
Explicit(t, image) ==
    [Invalidated(t, Lazy) EXCEPT
        !.entries = [c \in Flag \cup {"kind"} |->
                        IF c = "kind" THEN "none" ELSE image[c]],
        !.dirty = Flag \cup {"kind"}]

-----------------------------------------------------------------------------
Init ==
    /\ \E k \in Kind \cup {"none"}, a, b \in Operand, bytes \in Image :
          mem = [c \in Field |-> CASE c = "kind" -> k
                                   [] c = "a" -> a
                                   [] c = "b" -> b
                                   [] c \in Flag -> bytes[c]]
    /\ fields = FreshFields
    /\ status = FreshStatus
    /\ outer = NoOuter
    /\ phase = "exited"
    /\ result = NoResult
    /\ saved = ImageIn(mem)

Move(from, to) ==
    /\ phase \in from
    /\ phase' = to
    /\ result' = NoResult

FreshTracker == fields' = FreshFields /\ status' = FreshStatus /\ outer' = NoOuter

HostRead(f) ==
    /\ phase = "exited"
    /\ result' = <<ImageIn(mem)[f]>>
    /\ UNCHANGED <<mem, fields, status, outer, phase, saved>>

\* writeFlagByte: the record, if any, is spelt out before one flag changes.
HostWrite(f, v) ==
    /\ phase = "exited"
    /\ mem' = [c \in Field |->
                 IF c = f THEN v
                 ELSE IF c \in Flag THEN ImageIn(mem)[c]
                 ELSE IF c = "kind" THEN "none"
                 ELSE mem[c]]
    /\ result' = NoResult
    /\ UNCHANGED <<fields, status, outer, phase, saved>>

Enter ==
    /\ Move({"exited"}, "between")
    /\ FreshTracker
    /\ UNCHANGED <<mem, saved>>

BeginInstruction ==
    /\ Move({"between"}, "running")
    /\ fields' = MarkBoundary(fields)
    /\ saved' = ImageIn(Pending(fields, mem))
    /\ UNCHANGED <<mem, status, outer>>

Complete ==
    /\ Move({"running", "committing"}, "between")
    /\ UNCHANGED <<mem, fields, status, outer, saved>>

\* flushesForPath("completed")
Publish ==
    /\ Move({"between"}, "exited")
    /\ mem' = Pending(fields, mem)
    /\ FreshTracker
    /\ UNCHANGED saved

\* flushesForPath("fault")
Fault ==
    /\ Move({"running", "looping"}, "exited")
    /\ mem' = Over(mem, fields.boundary)
    /\ FreshTracker
    /\ UNCHANGED saved

-----------------------------------------------------------------------------
\* The stores made before the unresolved flags of F are asked for.
StoresFor(F) ==
    IF Unresolved(status, F) = {} THEN {}
    ELSE Published(fields, Unresolved(status, F))

MemoryFor(F) == MemoryAfterPublish(fields, mem, StoresFor(F))
FieldsFor(F) == Publishing(fields, mem, StoresFor(F))
StatusFor(F) == ResolvedInputs(status, MemoryFor(F), F)

Read(f) ==
    /\ phase = "running"
    /\ mem' = MemoryFor({f})
    /\ fields' = FieldsFor({f})
    /\ status' = StatusFor({f})
    /\ result' = <<Value(status', f)>>
    /\ UNCHANGED <<outer, phase, saved>>

SourceStatus(s) ==
    [backing |-> BackingsOf(status, s), directSource |-> s,
     inputs |-> status.inputs]

WriteSource(s) ==
    /\ phase = "running"
    /\ fields' \in RecordWrites(fields, s)
    /\ status' = SourceStatus(s)
    /\ result' = NoResult
    /\ UNCHANGED <<mem, outer, phase, saved>>

\* The value may be recognised as the one the flag has already.
WriteCurrent(f, v) ==
    /\ Unresolved(status, {f}) = {}
    /\ Value(status, f) = v
    /\ UNCHANGED <<mem, fields, status>>

\* Slip: input-backed flags do not force the flush.
FlushOnlyAfterSource(st) == st.directSource # NoSource

NeedsFlush(st) == st.directSource # NoSource \/ InputBacked(st) # {}

WriteFlushing(f, v) ==
    /\ NeedsFlush(status)
    /\ mem' = MemoryFor(Flag)
    /\ LET st == StatusFor(Flag)
           image == [g \in Flag |-> Value(st, g)] IN
       /\ fields' = Set(Explicit(FieldsFor(Flag), image), f, v)
       /\ status' = [backing |-> [g \in Flag |->
                                    ValueBacking(IF g = f THEN v ELSE image[g])],
                     directSource |-> NoSource,
                     inputs |-> st.inputs]

WriteExplicit(f, v) ==
    /\ ~NeedsFlush(status)
    /\ fields' = Set(fields, f, v)
    /\ status' = [status EXCEPT !.backing[f] = ValueBacking(v)]
    /\ UNCHANGED mem

Write(f, v) ==
    /\ phase = "running"
    /\ WriteCurrent(f, v) \/ WriteFlushing(f, v) \/ WriteExplicit(f, v)
    /\ result' = NoResult
    /\ UNCHANGED <<outer, phase, saved>>

-----------------------------------------------------------------------------
\* A comparison of the operands of the last result; StatusFlagValues shows
\* that it is the condition's expression over the flags.
DirectlyComparable(cc) ==
    /\ status.directSource # NoSource
    /\ cc \in Direct[status.directSource.kind]

TestDirect(cc) ==
    /\ DirectlyComparable(cc)
    /\ result' = <<Holds(cc, Derived[status.directSource])>>
    /\ UNCHANGED <<mem, fields, status>>

ReadsOnlyInputs(cc) == Reads[cc] \subseteq InputBacked(status)

RecordComparable(cc) ==
    /\ ~DirectlyComparable(cc)
    /\ \E k \in Kind : cc \in Direct[k]
    /\ ReadsOnlyInputs(cc)

Captured == ReadOf(fields, mem, Lazy)

CapturedRecord ==
    [kind |-> Tracked(fields, mem, "kind"), a |-> Tracked(fields, mem, "a"),
     b |-> Tracked(fields, mem, "b")]

(***************************************************************************)
(* A switch over the captured record.  The default arm calls the resolver, *)
(* and the tracker takes the stores it makes there as made: the code after *)
(* the switch is generated once, for every arm.                            *)
(***************************************************************************)
TestRecord(cc) ==
    /\ RecordComparable(cc)
    /\ LET S == Published(Captured, Reads[cc]) IN
       /\ fields' = Publishing(Captured, mem, S)
       /\ IF CapturedRecord.kind # "none" /\ cc \in Direct[CapturedRecord.kind]
          THEN /\ result' = <<Holds(cc, Derived[CapturedRecord])>>
               /\ UNCHANGED mem
          ELSE /\ mem' = MemoryAfterPublish(Captured, mem, S)
               /\ result' = <<Holds(cc, ImageIn(mem'))>>
    /\ UNCHANGED status

TestFlags(cc) ==
    /\ ~DirectlyComparable(cc)
    /\ ~RecordComparable(cc)
    /\ mem' = MemoryFor(Reads[cc])
    /\ fields' = FieldsFor(Reads[cc])
    /\ status' = StatusFor(Reads[cc])
    /\ result' = <<Holds(cc, [f \in Flag |-> IF f \in Reads[cc]
                                             THEN Value(status', f) ELSE 0])>>

Test(cc) ==
    /\ phase \in {"running", "iterated"}
    /\ TestDirect(cc) \/ TestRecord(cc) \/ TestFlags(cc)
    /\ UNCHANGED <<outer, phase, saved>>

-----------------------------------------------------------------------------
(***************************************************************************)
(* REP CMPS and REP SCAS, the only shipped semantics that set flags inside *)
(* structured control: a loop whose body sets them from a subtraction, in  *)
(* an arm taken when ecx is not zero.  When ecx is a known constant there  *)
(* is no arm: the loop is generated in place, or not at all.               *)
(***************************************************************************)
StatusAfterJoin == FreshStatus

\* Slip: the operands of the record stay tracked.
OperandsKeptAtJoin(t) == Invalidated(t, {"kind"})

FieldsAfterJoin(t) == Invalidated(t, Lazy)

\* The arm not taken stores what the other arm's channels still hold back.
SkipArm ==
    /\ Move({"running"}, "committing")
    /\ mem' = Over(mem, On(fields.entries, fields.dirty \cap Lazy))
    /\ fields' = FieldsAfterJoin(fields)
    /\ status' = StatusAfterJoin
    /\ UNCHANGED <<outer, saved>>

SkipKnown ==
    /\ Move({"running"}, "committing")
    /\ UNCHANGED <<mem, fields, status, outer, saved>>

\* The tracker at the top of the loop, where the record comes in as values.
LoopTop(t, record) ==
    LET seeded == ReadOf(t, mem, Lazy)
        entries == [c \in DOMAIN seeded.entries \cup Lazy |->
                      IF c \in Lazy THEN record[c] ELSE seeded.entries[c]] IN
    [entries |-> entries, dirty |-> seeded.dirty \cup Lazy,
     boundary |-> entries, reads |-> seeded.reads]

EnterLoop ==
    /\ Move({"running"}, "looping")
    /\ \E arm \in BOOLEAN :
          outer' = [arm |-> arm, fields |-> fields, status |-> status]
    /\ fields' = LoopTop(fields, CapturedRecord)
    /\ saved' = ImageIn(Pending(fields, mem))
    /\ UNCHANGED <<mem, status>>

Iterate(s) ==
    /\ s.kind = "sub"
    /\ Move({"looping"}, "iterated")
    /\ fields' \in RecordWrites(fields, s)
    /\ status' = SourceStatus(s)
    /\ UNCHANGED <<mem, outer, saved>>

Again ==
    /\ Move({"iterated"}, "looping")
    /\ fields' = LoopTop(outer.fields, CapturedRecord)
    /\ status' = outer.status
    /\ saved' = ImageIn(Pending(fields, mem))
    /\ UNCHANGED <<mem, outer>>

Leave ==
    /\ Move({"iterated"}, "committing")
    /\ mem' = [c \in Field |-> IF c \in Lazy THEN CapturedRecord[c] ELSE mem[c]]
    /\ fields' = FieldsAfterJoin(IF outer.arm THEN outer.fields ELSE fields)
    /\ status' = StatusAfterJoin
    /\ outer' = NoOuter
    /\ UNCHANGED saved

-----------------------------------------------------------------------------
Next ==
    \/ Enter \/ BeginInstruction \/ Complete \/ Publish \/ Fault
    \/ SkipArm \/ SkipKnown \/ EnterLoop \/ Again \/ Leave
    \/ \E f \in Flag :
          \/ HostRead(f)
          \/ Read(f)
          \/ \E v \in Bit : HostWrite(f, v) \/ Write(f, v)
    \/ \E s \in Source : WriteSource(s) \/ Iterate(s)
    \/ \E cc \in Condition : Test(cc)

Spec == Init /\ [][Next]_vars

-----------------------------------------------------------------------------
Content(c) ==
    IF c \in Flag THEN Bit
    ELSE IF c = "kind" THEN Kind \cup {"none"} ELSE Operand

Contents(f) == DOMAIN f \subseteq Field /\ \A c \in DOMAIN f : f[c] \in Content(c)

TypeOK ==
    /\ DOMAIN mem = Field /\ Contents(mem)
    /\ Contents(fields.entries)
    /\ Contents(fields.boundary)
    /\ Contents(fields.reads)
    /\ fields.dirty \subseteq DOMAIN fields.entries
    /\ DOMAIN fields.entries \cap DOMAIN fields.reads \subseteq Lazy
    /\ DOMAIN status.inputs \subseteq Flag
    /\ status.directSource \in Source \cup {NoSource}
    /\ phase \in {"exited", "between", "running", "looping", "iterated",
                  "committing"}
    /\ saved \in Image

\* What memory will say once the pending stores are made.
Architectural == ImageIn(IF phase = "exited" THEN mem ELSE Pending(fields, mem))

(***************************************************************************)
(* The two accounts of a flag agree: what the tracker computes it from in  *)
(* this function is what the record or the flag bytes give to whoever      *)
(* reads memory after the pending stores.  At the top of a later iteration *)
(* the backings are those of before the loop; nothing reads them there.    *)
(***************************************************************************)
BackingsMatchRecord ==
    phase # "looping" =>
        /\ \A f \in Flag : Unresolved(status, {f}) = {} =>
              Value(status, f) = Architectural[f]
        /\ status.directSource # NoSource =>
              Derived[status.directSource] = Architectural

(***************************************************************************)
(* A fault writes the boundary over memory, and the flags are those the    *)
(* instruction (in a REP, the iteration) began with, whatever the resolver *)
(* calls in between made the tracker store.                                *)
(***************************************************************************)
BoundaryRestoresFlags ==
    phase \in {"running", "looping"} =>
        ImageIn(Over(mem, fields.boundary)) = saved

(***************************************************************************)
(* A condition over the record publishes in its default arm only, yet the  *)
(* code after it uses one tracker state.  That is sound because nothing is *)
(* added to the boundary there (such a value would exist on that path      *)
(* only), and because a flag byte the other arms did not store is not      *)
(* looked at while the record stands.                                      *)
(***************************************************************************)
DefaultArmIsInvisible ==
    /\ phase = "running" /\ InputBacked(status) # {} =>
          /\ InputBacked(status) = Flag
          /\ fields.dirty \subseteq DOMAIN fields.boundary
    /\ \A c \in DOMAIN fields.entries \ fields.dirty :
          \/ fields.entries[c] = mem[c]
          \/ c \in Flag /\ Pending(fields, mem)["kind"] # "none"

\* The lazy flags implement flags that are always up to date.
File == INSTANCE StatusFlagFile WITH flags <- Architectural

EagerFlags == File!Spec
=============================================================================
