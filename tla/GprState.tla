------------------------------ MODULE GprState ------------------------------
(***************************************************************************)
(* The register tracker used while an instruction is lowered               *)
(* (src/instructions/lowering/state/gpr.ts over pending-buffer.ts),        *)
(* followed along one path of the generated function.  The tracker decides *)
(* at lowering time which reads and stores of the cpu-state memory the     *)
(* path contains; the model performs each store on mem when the tracker    *)
(* emits it, so mem is what the path has done to memory so far.            *)
(*                                                                         *)
(* A path ends in flushesForPath("fault") (a CPU exception or a segment    *)
(* load) or in flushesForPath("completed").  Side exits inside an arm are  *)
(* paths of their own: enterScope restores the tracker for the rest.       *)
(***************************************************************************)
EXTENDS Naturals, FiniteSets

CONSTANTS
    Byte,       \* byte positions of the general registers
    Value,      \* contents of one byte
    Channel,    \* register names
    Extent,     \* Extent[c] is the byte range of register name c
    Semantics   \* which instruction semantics drive the tracker, see below

ASSUME ExtentAssumption == Extent \in [Channel -> (SUBSET Byte) \ {{}}]

(***************************************************************************)
(* "shipped": while an instruction can still raise, it writes a register   *)
(* name only after reading that same name, and writes no second name that  *)
(* overlaps it (the stack pointer of pop is the case that occurs);         *)
(* "any": no restriction, the tracker driven as its tests drive it.        *)
(***************************************************************************)
ASSUME SemanticsAssumption == Semantics \in {"shipped", "any"}

VARIABLES
    mem,                \* the registers in cpu-state memory
    entries,            \* PendingBuffer.#entries: tracked value by channel
    dirty,              \* the tracked channels not yet stored
    boundaryKeys,       \* keys of PendingBuffer.#boundary
    restore,            \* what writing #boundary in insertion order stores
    reads,              \* GprState.#reads: cached reads of memory
    unrestorableStore,  \* GprState.#unrestorableStore
    phase,              \* "exited", "between", "checking" or "committing"
    result,             \* the value the last read returned or write stored
    startRegs,          \* history: registers when the instruction began
    exact,              \* history: names read by this instruction
    written             \* history: names written by this instruction

tracker == <<entries, dirty, boundaryKeys, restore, reads, unrestorableStore>>
history == <<startRegs, exact, written>>
vars == <<mem, tracker, phase, result, history>>

NoResult == << >>

ChannelValue(c) == [Extent[c] -> Value]

Overlaps(a, b) == Extent[a] \cap Extent[b] # {}

\* Slip: any overlap taken for cover.
CoversIfOverlapping(a, b) == Extent[a] \cap Extent[b] # {}

Covers(a, b) == Extent[b] \subseteq Extent[a]

\* Slip: the channel's extent not cut out of the file.
OnUncut(file, c) == file

On(file, c) == [b \in Extent[c] |-> file[b]]

Put(f, c, v) == [x \in DOMAIN f \cup {c} |-> IF x = c THEN v ELSE f[x]]

Without(f, S) == [x \in DOMAIN f \ S |-> f[x]]

OverlappingIn(S, c) == {d \in S : Overlaps(d, c)}

\* The file m with the values e of the channels S stored over it.
Overlay(m, e, S) ==
    [b \in Byte |->
        IF \E c \in S : b \in Extent[c]
        THEN e[CHOOSE c \in S : b \in Extent[c]][b]
        ELSE m[b]]

Stored(S) == Overlay(mem, entries, S)

\* The registers as the program must see them.
Registers == Stored(dirty)

-----------------------------------------------------------------------------
(***************************************************************************)
(* #flush applied to every channel of S.  Tracked channels never overlap,  *)
(* so the order of the flushes shows nowhere.  A flushed channel that the  *)
(* boundary lacks joins it with its cached read, if there is one.          *)
(***************************************************************************)
Flushed(S) == S \cap dirty

Rescued(S) == {c \in Flushed(S) \ boundaryKeys : c \in DOMAIN reads}

Lost(S) == {c \in Flushed(S) \ boundaryKeys : c \notin DOMAIN reads}

\* Slip: a flush that leaves the overlapping cached reads alive.
ReadsKeptAfterFlush(S) == reads

ReadsAfterFlush(S) ==
    Without(reads, {r \in DOMAIN reads : \E c \in Flushed(S) : Overlaps(r, c)})

\* Slip: the flushed value, not the cached read, joins the boundary.
RestoreTakesFlushedValue(S) ==
    LET late == UNION {Extent[c] : c \in Rescued(S)} IN
    [b \in DOMAIN restore \cup late |->
        IF b \in late
        THEN entries[CHOOSE c \in Rescued(S) : b \in Extent[c]][b]
        ELSE restore[b]]

RestoreAfterFlush(S) ==
    LET late == UNION {Extent[c] : c \in Rescued(S)} IN
    [b \in DOMAIN restore \cup late |->
        IF b \in late
        THEN reads[CHOOSE c \in Rescued(S) : b \in Extent[c]][b]
        ELSE restore[b]]

\* Everything a flush changes except the entries, dirty and reads.
FlushStores(S) ==
    /\ mem' = Stored(Flushed(S))
    /\ boundaryKeys' = boundaryKeys \cup Rescued(S)
    /\ restore' = RestoreAfterFlush(S)
    /\ unrestorableStore' = (unrestorableStore \/ Lost(S) # {})

-----------------------------------------------------------------------------
Running == phase \in {"checking", "committing"}

FreshTracker ==
    /\ entries' = << >>
    /\ dirty' = {}
    /\ boundaryKeys' = {}
    /\ restore' = << >>
    /\ reads' = << >>
    /\ unrestorableStore' = FALSE

Init ==
    /\ mem \in [Byte -> Value]
    /\ entries = << >>
    /\ dirty = {}
    /\ boundaryKeys = {}
    /\ restore = << >>
    /\ reads = << >>
    /\ unrestorableStore = FALSE
    /\ phase = "exited"
    /\ result = NoResult
    /\ startRegs = mem
    /\ exact = {}
    /\ written = {}

\* A generated function starts with a fresh tracker.
Enter ==
    /\ phase = "exited"
    /\ phase' = "between"
    /\ FreshTracker
    /\ result' = NoResult
    /\ UNCHANGED <<mem, history>>

\* Slip: only the dirty values in the boundary.
DirtySnapshot == dirty

\* snapshotBoundary keeps every tracked value, dirty or not.
Snapshot == DOMAIN entries

BeginInstruction ==
    /\ phase = "between"
    /\ phase' = "checking"
    /\ boundaryKeys' = Snapshot
    /\ LET kept == UNION {Extent[c] : c \in Snapshot} IN
       restore' = [b \in kept |->
            entries[CHOOSE c \in Snapshot : b \in Extent[c]][b]]
    /\ unrestorableStore' = FALSE
    /\ result' = NoResult
    /\ startRegs' = Registers
    /\ exact' = {}
    /\ written' = {}
    /\ UNCHANGED <<mem, entries, dirty, reads>>

ReadTracked(c) ==
    /\ c \in DOMAIN entries
    /\ result' = entries[c]
    /\ UNCHANGED <<mem, tracker>>

\* No exact entry: flush what overlaps, then use the cached read or memory.
ReadState(c) ==
    /\ c \notin DOMAIN entries
    /\ LET S == OverlappingIn(DOMAIN entries, c)
           left == ReadsAfterFlush(S) IN
       /\ FlushStores(S)
       /\ dirty' = dirty \ S
       /\ result' = IF c \in DOMAIN left THEN left[c] ELSE On(mem', c)
       /\ reads' = Put(left, c, result')
       /\ UNCHANGED entries

Read(c) ==
    /\ Running
    /\ ReadTracked(c) \/ ReadState(c)
    /\ exact' = exact \cup {c}
    /\ UNCHANGED <<phase, startRegs, written>>

\* What the semantics may write while a CPU exception is still possible.
MayWrite(c) ==
    \/ Semantics = "any"
    \/ phase = "committing"
    \/ c \in exact /\ \A d \in written : d # c => ~Overlaps(d, c)

(***************************************************************************)
(* The tracker recognises a write that restores the cached read only when  *)
(* both are the same value of the function being built (sameValue), so an  *)
(* equal value may or may not be recognised.                               *)
(***************************************************************************)
Write(c, v) ==
    /\ Running
    /\ MayWrite(c)
    /\ LET others == OverlappingIn(DOMAIN entries \ {c}, c)
           S == {d \in others : ~Covers(c, d)}
           left == ReadsAfterFlush(S)
           kept == Without(entries, others) IN
       /\ FlushStores(S)
       /\ reads' = left
       /\ \/ /\ c \in DOMAIN left
             /\ left[c] = v
             /\ entries' = Without(kept, {c})
             /\ dirty' = dirty \ (others \cup {c})
          \/ /\ entries' = Put(kept, c, v)
             /\ dirty' = (dirty \ others) \cup {c}
    /\ written' = written \cup {c}
    /\ result' = v
    /\ UNCHANGED <<phase, startRegs, exact>>

\* A register chosen at run time: flush everything, then read memory.
ReadDynamic(c) ==
    /\ Running
    /\ FlushStores(dirty)
    /\ dirty' = {}
    /\ reads' = ReadsAfterFlush(dirty)
    /\ result' = On(mem', c)
    /\ UNCHANGED <<entries, phase, history>>

WriteDynamic(c, v) ==
    /\ phase = "committing"
    /\ LET flushed == Stored(dirty) IN
       mem' = [b \in Byte |-> IF b \in Extent[c] THEN v[b] ELSE flushed[b]]
    /\ boundaryKeys' = boundaryKeys \cup Rescued(dirty)
    /\ restore' = RestoreAfterFlush(dirty)
    /\ unrestorableStore' = TRUE
    /\ entries' = << >>
    /\ dirty' = {}
    /\ reads' = << >>
    /\ result' = v
    /\ UNCHANGED <<phase, history>>

\* From here on the instruction raises no CPU exception.
Commit ==
    /\ phase = "checking"
    /\ phase' = "committing"
    /\ result' = NoResult
    /\ UNCHANGED <<mem, tracker, history>>

Complete ==
    /\ phase = "committing"
    /\ phase' = "between"
    /\ result' = NoResult
    /\ UNCHANGED <<mem, tracker, history>>

\* What memory holds once the boundary is written back, in insertion order.
Restored == [b \in Byte |-> IF b \in DOMAIN restore THEN restore[b] ELSE mem[b]]

\* flushesForPath("fault").  Its assertion on unrestorableStore is compiled
\* out of production builds, so it guards nothing here.
Fault ==
    /\ phase = "checking"
    /\ mem' = Restored
    /\ phase' = "exited"
    /\ FreshTracker
    /\ result' = NoResult
    /\ UNCHANGED history

\* flushesForPath("completed"): store what is still dirty.
Publish ==
    /\ phase = "between"
    /\ mem' = Registers
    /\ phase' = "exited"
    /\ FreshTracker
    /\ result' = NoResult
    /\ UNCHANGED history

Next ==
    \/ Enter \/ BeginInstruction \/ Commit \/ Complete \/ Fault \/ Publish
    \/ \E c \in Channel :
          \/ Read(c)
          \/ ReadDynamic(c)
          \/ \E v \in ChannelValue(c) : Write(c, v) \/ WriteDynamic(c, v)

Spec == Init /\ [][Next]_vars

-----------------------------------------------------------------------------
\* Types: every tracked or cached value has the width of its channel.
TypeOK ==
    /\ mem \in [Byte -> Value]
    /\ DOMAIN entries \subseteq Channel
    /\ \A c \in DOMAIN entries : entries[c] \in ChannelValue(c)
    /\ dirty \subseteq DOMAIN entries
    /\ boundaryKeys \subseteq Channel
    /\ DOMAIN restore \subseteq Byte
    /\ \A b \in DOMAIN restore : restore[b] \in Value
    /\ DOMAIN reads \subseteq Channel
    /\ \A c \in DOMAIN reads : reads[c] \in ChannelValue(c)
    /\ unrestorableStore \in BOOLEAN
    /\ phase \in {"exited", "between", "checking", "committing"}
    /\ startRegs \in [Byte -> Value]
    /\ exact \subseteq Channel
    /\ written \subseteq Channel

(***************************************************************************)
(* The tracker never describes one byte twice: tracked channels are        *)
(* pairwise disjoint, a tracked value that is not dirty is what memory     *)
(* holds, and so is every cached read.  #writeChannel keeps this although  *)
(* it drops covered entries without storing them.                          *)
(***************************************************************************)
Coherent ==
    /\ \A c, d \in DOMAIN entries : c # d => ~Overlaps(c, d)
    /\ \A c \in DOMAIN entries \ dirty : entries[c] = On(mem, c)
    /\ \A c \in DOMAIN reads : reads[c] = On(mem, c)

(***************************************************************************)
(* Unless the tracker has given up on it (unrestorableStore), the boundary *)
(* written over memory is the register file the instruction began with,    *)
(* whatever was flushed since: the comment in #flush that a live cached    *)
(* read of the exact channel is still the pre-instruction value.           *)
(***************************************************************************)
BoundaryRestoresStart ==
    phase = "checking" /\ ~unrestorableStore => Restored = startRegs

\* The assertion of flushesForPath: no path that can still raise has stored
\* over bytes that the boundary lacks.
FaultsAreRestorable == phase = "checking" => ~unrestorableStore

\* The tracker implements the register transaction: reads return the
\* architectural value, a raise undoes the instruction, completion keeps it.
File == INSTANCE RegisterFile WITH
            regs <- IF phase = "exited" THEN mem ELSE Registers,
            saved <- startRegs

RegisterTransaction == File!Spec
=============================================================================
