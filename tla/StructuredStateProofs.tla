----------------------- MODULE StructuredStateProofs -----------------------
(***************************************************************************)
(* Proofs about the register tracker.  First GprState alone, for every set *)
(* of channels, with whatever aliasing Extent gives them, and every        *)
(* semantics.  Then StructuredState, for every register layout and every   *)
(* bound on scopes, iterations and accesses: arms within arms, and loops   *)
(* in them, leave the tracker as coherent, as undoable and as much a       *)
(* register file as straight-line code does.                               *)
(***************************************************************************)
EXTENDS StructuredState, SequenceTheorems, TLAPS

\* A tracker with nothing tracked and nothing cached is typed and coherent.
LEMMA EmptyTracker ==
    ASSUME entries = << >>, dirty = {}, boundaryKeys = {}, restore = << >>,
           reads = << >>, unrestorableStore = FALSE
    PROVE  /\ DOMAIN entries = {}
           /\ DOMAIN restore = {}
           /\ DOMAIN reads = {}
           /\ Coherent
<1>1. DOMAIN << >> = {}
  OBVIOUS
<1> QED
  BY <1>1 DEF Coherent

-----------------------------------------------------------------------------
\* Storing values over a file puts each of them there whole, provided that
\* no two of the stored channels share a byte.
LEMMA OverlayAt ==
    ASSUME NEW m, NEW e, NEW S, \A c, d \in S : c # d => ~Overlaps(c, d),
           NEW c \in S, NEW b \in Extent[c], b \in Byte
    PROVE  Overlay(m, e, S)[b] = e[c][b]
<1> DEFINE d == CHOOSE x \in S : b \in Extent[x]
<1>1. d \in S /\ b \in Extent[d]
  OBVIOUS
<1>2. d = c
  BY <1>1 DEF Overlaps
<1> QED
  BY <1>2 DEF Overlay

\* Bytes no stored channel covers keep their contents.
LEMMA OverlayElsewhere ==
    ASSUME NEW m, NEW e, NEW S, NEW b \in Byte, \A c \in S : b \notin Extent[c]
    PROVE  Overlay(m, e, S)[b] = m[b]
BY DEF Overlay

\* A channel the flush stores is in memory whole afterwards.
LEMMA StoredAt ==
    ASSUME TypeOK, Coherent, NEW S \in SUBSET DOMAIN entries,
           NEW c \in S, NEW b \in Extent[c]
    PROVE  b \in Byte /\ Stored(S)[b] = entries[c][b]
<1>1. b \in Byte
  BY ExtentAssumption DEF TypeOK
<1>2. \A x, y \in S : x # y => ~Overlaps(x, y)
  BY DEF Coherent
<1> QED
  BY <1>1, <1>2, OverlayAt DEF Stored

\* Bytes outside the stored channels keep what memory held.
LEMMA StoredElsewhere ==
    ASSUME NEW S, NEW b \in Byte, \A c \in S : b \notin Extent[c]
    PROVE  Stored(S)[b] = mem[b]
BY OverlayElsewhere DEF Stored

\* Storing tracked channels leaves a register file.
LEMMA StoredType ==
    ASSUME TypeOK, NEW S \in SUBSET DOMAIN entries
    PROVE  Stored(S) \in [Byte -> Value]
<1> SUFFICES ASSUME NEW b \in Byte
             PROVE  Stored(S)[b] \in Value
  BY DEF Stored, Overlay
<1>1. CASE \E c \in S : b \in Extent[c]
  <2> DEFINE d == CHOOSE x \in S : b \in Extent[x]
  <2>1. d \in S /\ b \in Extent[d]
    BY <1>1
  <2>2. entries[d] \in [Extent[d] -> Value]
    BY <2>1 DEF TypeOK, ChannelValue
  <2> QED
    BY <1>1, <2>1, <2>2 DEF Stored, Overlay
<1>2. CASE ~ \E c \in S : b \in Extent[c]
  BY <1>2, StoredElsewhere DEF TypeOK
<1> QED
  BY <1>1, <1>2

\* After a flush every flushed channel, and every one that was clean, is
\* what memory holds.
LEMMA FlushedEntries ==
    ASSUME TypeOK, Coherent, NEW S \in SUBSET DOMAIN entries,
           NEW c \in DOMAIN entries \ (dirty \ S)
    PROVE  entries[c] = On(Stored(Flushed(S)), c)
<1>1. Flushed(S) \in SUBSET DOMAIN entries
  BY DEF Flushed
<1>2. entries[c] \in [Extent[c] -> Value]
  BY DEF TypeOK, ChannelValue
<1>3. ASSUME NEW b \in Extent[c]
      PROVE  entries[c][b] = Stored(Flushed(S))[b]
  <2>1. b \in Byte
    BY ExtentAssumption DEF TypeOK
  <2>2. CASE c \in Flushed(S)
    BY <1>1, <2>2, StoredAt
  <2>3. CASE c \notin Flushed(S)
    <3>1. c \notin dirty
      BY <2>3 DEF Flushed
    <3>2. entries[c][b] = mem[b]
      BY <3>1 DEF Coherent, On
    <3>3. \A d \in Flushed(S) : b \notin Extent[d]
      BY <1>1, <2>3 DEF Coherent, Overlaps
    <3> QED
      BY <2>1, <3>2, <3>3, StoredElsewhere
  <2> QED
    BY <2>2, <2>3
<1> QED
  BY <1>2, <1>3 DEF On

\* A flush drops every cached read it makes stale.
LEMMA FlushedReads ==
    ASSUME TypeOK, Coherent, NEW S \in SUBSET DOMAIN entries
    PROVE  /\ DOMAIN ReadsAfterFlush(S) \subseteq DOMAIN reads
           /\ \A r \in DOMAIN ReadsAfterFlush(S) :
                 /\ ReadsAfterFlush(S)[r] \in ChannelValue(r)
                 /\ ReadsAfterFlush(S)[r] = On(Stored(Flushed(S)), r)
<1> DEFINE left == ReadsAfterFlush(S)
<1>1. DOMAIN left \subseteq DOMAIN reads
  BY DEF ReadsAfterFlush, Without
<1>2. ASSUME NEW r \in DOMAIN left
      PROVE  left[r] \in ChannelValue(r) /\ left[r] = On(Stored(Flushed(S)), r)
  <2>1. r \in DOMAIN reads /\ left[r] = reads[r]
    BY <1>2 DEF ReadsAfterFlush, Without
  <2>2. \A c \in Flushed(S) : ~Overlaps(r, c)
    BY <1>2 DEF ReadsAfterFlush, Without
  <2>3. reads[r] = On(mem, r)
    BY <2>1 DEF Coherent
  <2>4. \A b \in Extent[r] : b \in Byte
    BY <2>1, ExtentAssumption DEF TypeOK
  <2>5. \A b \in Extent[r] : Stored(Flushed(S))[b] = mem[b]
    BY <2>2, <2>4, StoredElsewhere DEF Overlaps
  <2>6. On(mem, r) = On(Stored(Flushed(S)), r)
    BY <2>5 DEF On
  <2> QED
    BY <2>1, <2>3, <2>6 DEF TypeOK
<1> QED
  BY <1>1, <1>2

-----------------------------------------------------------------------------
\* What FlushStores and the matching updates of dirty and reads keep, before
\* the entries change.
LEMMA FlushKeepsTypes ==
    ASSUME TypeOK, Coherent, NEW S \in SUBSET DOMAIN entries, FlushStores(S)
    PROVE  /\ mem' = Stored(Flushed(S))
           /\ mem' \in [Byte -> Value]
           /\ boundaryKeys' \subseteq Channel
           /\ DOMAIN restore' \subseteq Byte
           /\ \A b \in DOMAIN restore' : restore'[b] \in Value
           /\ unrestorableStore' \in BOOLEAN
<1>1. Rescued(S) \subseteq DOMAIN reads /\ Rescued(S) \subseteq DOMAIN entries
  BY DEF Rescued, Flushed
<1>2. mem' = Stored(Flushed(S)) /\ mem' \in [Byte -> Value]
  BY StoredType DEF FlushStores, Flushed
<1>3. boundaryKeys' \subseteq Channel
  BY <1>1 DEF FlushStores, TypeOK
<1>4. unrestorableStore' \in BOOLEAN
  BY DEF FlushStores, TypeOK
<1> DEFINE late == UNION {Extent[c] : c \in Rescued(S)}
<1>5. late \subseteq Byte
  BY <1>1, ExtentAssumption DEF TypeOK
<1>6. DOMAIN restore' \subseteq Byte
  BY <1>5 DEF FlushStores, RestoreAfterFlush, TypeOK
<1>7. ASSUME NEW b \in DOMAIN restore'
      PROVE  restore'[b] \in Value
  <2>1. CASE b \in late
    <3> DEFINE d == CHOOSE c \in Rescued(S) : b \in Extent[c]
    <3>1. d \in Rescued(S) /\ b \in Extent[d]
      BY <2>1
    <3>2. restore'[b] = reads[d][b]
      BY <2>1 DEF FlushStores, RestoreAfterFlush
    <3> QED
      BY <1>1, <3>1, <3>2 DEF TypeOK, ChannelValue
  <2>2. CASE b \notin late
    <3>1. b \in DOMAIN restore
      BY <1>7, <2>2 DEF FlushStores, RestoreAfterFlush
    <3>2. restore'[b] = restore[b]
      BY <2>2, <3>1 DEF FlushStores, RestoreAfterFlush
    <3> QED
      BY <3>1, <3>2 DEF TypeOK
  <2> QED
    BY <2>1, <2>2
<1> QED
  BY <1>2, <1>3, <1>4, <1>6, <1>7

\* A read of a channel with no exact entry.
LEMMA ReadStateStep ==
    ASSUME TypeOK, Coherent, NEW c \in Channel, Running, ReadState(c),
           UNCHANGED <<phase, startRegs, written>>, exact' = exact \cup {c}
    PROVE  TypeOK' /\ Coherent'
<1> DEFINE S == OverlappingIn(DOMAIN entries, c)
           left == ReadsAfterFlush(S)
<1>1. S \in SUBSET DOMAIN entries
  BY DEF OverlappingIn
<1>2. /\ FlushStores(S)
      /\ dirty' = dirty \ S
      /\ result' = IF c \in DOMAIN left THEN left[c] ELSE On(mem', c)
      /\ reads' = Put(left, c, result')
      /\ entries' = entries
  BY DEF ReadState
<1>3. /\ mem' = Stored(Flushed(S))
      /\ mem' \in [Byte -> Value]
      /\ boundaryKeys' \subseteq Channel
      /\ DOMAIN restore' \subseteq Byte
      /\ \A b \in DOMAIN restore' : restore'[b] \in Value
      /\ unrestorableStore' \in BOOLEAN
  BY <1>1, <1>2, FlushKeepsTypes
<1>4. /\ DOMAIN left \subseteq DOMAIN reads
      /\ \A r \in DOMAIN left : left[r] \in ChannelValue(r) /\ left[r] = On(mem', r)
  BY <1>1, <1>3, FlushedReads
<1>5. On(mem', c) \in ChannelValue(c)
  BY <1>3, ExtentAssumption DEF On, ChannelValue
<1>6. /\ DOMAIN reads' \subseteq Channel
      /\ \A r \in DOMAIN reads' : reads'[r] \in ChannelValue(r) /\ reads'[r] = On(mem', r)
  BY <1>2, <1>4, <1>5 DEF Put, TypeOK
<1>7. \A d \in DOMAIN entries' \ dirty' : entries'[d] = On(mem', d)
  BY <1>1, <1>2, <1>3, FlushedEntries
<1>8. TypeOK'
  BY <1>2, <1>3, <1>6 DEF TypeOK, Running, ChannelValue
<1>9. Coherent'
  BY <1>2, <1>6, <1>7 DEF Coherent, Overlaps, On
<1> QED
  BY <1>8, <1>9

\* A write drops or stores whatever overlaps its channel, so that what remains
\* tracked is still pairwise disjoint.
LEMMA WriteStep ==
    ASSUME TypeOK, Coherent, NEW c \in Channel, NEW v \in ChannelValue(c), Write(c, v)
    PROVE  TypeOK' /\ Coherent'
<1> DEFINE others == OverlappingIn(DOMAIN entries \ {c}, c)
           S == {d \in others : ~Covers(c, d)}
           left == ReadsAfterFlush(S)
           kept == Without(entries, others)
<1>1. S \in SUBSET DOMAIN entries
  BY DEF OverlappingIn
<1>2. /\ FlushStores(S)
      /\ reads' = left
      /\ UNCHANGED <<phase, startRegs, exact>>
      /\ written' = written \cup {c}
  BY DEF Write
<1>3. /\ mem' = Stored(Flushed(S))
      /\ mem' \in [Byte -> Value]
      /\ boundaryKeys' \subseteq Channel
      /\ DOMAIN restore' \subseteq Byte
      /\ \A b \in DOMAIN restore' : restore'[b] \in Value
      /\ unrestorableStore' \in BOOLEAN
  BY <1>1, <1>2, FlushKeepsTypes
<1>4. /\ DOMAIN reads' \subseteq Channel
      /\ \A r \in DOMAIN reads' : reads'[r] \in ChannelValue(r) /\ reads'[r] = On(mem', r)
  BY <1>1, <1>2, <1>3, FlushedReads DEF TypeOK
<1>5. \A d \in DOMAIN entries \ (dirty \ S) : entries[d] = On(mem', d)
  BY <1>1, <1>3, FlushedEntries
<1>6. DOMAIN kept = DOMAIN entries \ others /\ \A d \in DOMAIN kept : kept[d] = entries[d]
  BY DEF Without
<1>7. \A d \in DOMAIN kept : d # c => ~Overlaps(d, c)
  BY <1>6 DEF OverlappingIn
<1>8. /\ DOMAIN entries' \subseteq Channel
      /\ \A d \in DOMAIN entries' : entries'[d] \in ChannelValue(d)
      /\ dirty' \subseteq DOMAIN entries'
      /\ \A d \in DOMAIN entries' \ {c} : d \in DOMAIN kept /\ entries'[d] = entries[d]
      /\ \A d \in DOMAIN entries' \ dirty' : d # c /\ d \notin dirty
  <2>1. CASE /\ entries' = Without(kept, {c})
             /\ dirty' = dirty \ (others \cup {c})
    <3>1. /\ DOMAIN entries' = DOMAIN kept \ {c}
          /\ \A d \in DOMAIN entries' : entries'[d] = entries[d]
      BY <2>1, <1>6 DEF Without
    <3> QED
      BY <2>1, <3>1, <1>6 DEF TypeOK
  <2>2. CASE /\ entries' = Put(kept, c, v)
             /\ dirty' = (dirty \ others) \cup {c}
    <3>1. /\ DOMAIN entries' = DOMAIN kept \cup {c}
          /\ entries'[c] = v
          /\ \A d \in DOMAIN entries' \ {c} : entries'[d] = entries[d]
      BY <2>2, <1>6 DEF Put
    <3> QED
      BY <2>2, <3>1, <1>6 DEF TypeOK
  <2> QED
    BY <2>1, <2>2 DEF Write
<1>9. TypeOK'
  BY <1>2, <1>3, <1>4, <1>8 DEF TypeOK, ChannelValue
<1>10. \A d, e \in DOMAIN entries' : d # e => ~Overlaps(d, e)
  BY <1>6, <1>7, <1>8 DEF Coherent, Overlaps
<1>11. \A d \in DOMAIN entries' \ dirty' : entries'[d] = On(mem', d)
  BY <1>5, <1>6, <1>8
<1>12. Coherent'
  BY <1>4, <1>10, <1>11 DEF Coherent, Overlaps, On
<1> QED
  BY <1>9, <1>12

\* A register chosen at run time leaves everything tracked stored.
LEMMA ReadDynamicStep ==
    ASSUME TypeOK, Coherent, NEW c \in Channel, ReadDynamic(c)
    PROVE  TypeOK' /\ Coherent'
<1>1. dirty \in SUBSET DOMAIN entries
  BY DEF TypeOK
<1>2. /\ FlushStores(dirty)
      /\ dirty' = {}
      /\ reads' = ReadsAfterFlush(dirty)
      /\ UNCHANGED <<entries, phase, startRegs, exact, written>>
  BY DEF ReadDynamic, history
<1>3. /\ mem' = Stored(Flushed(dirty))
      /\ mem' \in [Byte -> Value]
      /\ boundaryKeys' \subseteq Channel
      /\ DOMAIN restore' \subseteq Byte
      /\ \A b \in DOMAIN restore' : restore'[b] \in Value
      /\ unrestorableStore' \in BOOLEAN
  BY <1>1, <1>2, FlushKeepsTypes
<1>4. /\ DOMAIN reads' \subseteq Channel
      /\ \A r \in DOMAIN reads' : reads'[r] \in ChannelValue(r) /\ reads'[r] = On(mem', r)
  BY <1>1, <1>2, <1>3, FlushedReads DEF TypeOK
<1>5. \A d \in DOMAIN entries : entries[d] = On(mem', d)
  BY <1>1, <1>3, FlushedEntries
<1>6. TypeOK'
  BY <1>2, <1>3, <1>4 DEF TypeOK, ChannelValue
<1>7. Coherent'
  BY <1>2, <1>4, <1>5 DEF Coherent, Overlaps, On
<1> QED
  BY <1>6, <1>7

\* A write chosen at run time forgets everything tracked and cached.
LEMMA WriteDynamicStep ==
    ASSUME TypeOK, Coherent, NEW c \in Channel, NEW v \in ChannelValue(c),
           WriteDynamic(c, v)
    PROVE  TypeOK' /\ Coherent'
<1>1. dirty \in SUBSET DOMAIN entries
  BY DEF TypeOK
<1>2. Stored(dirty) \in [Byte -> Value]
  BY <1>1, StoredType
<1>3. mem' \in [Byte -> Value]
  BY <1>2 DEF WriteDynamic, ChannelValue
<1> DEFINE late == UNION {Extent[d] : d \in Rescued(dirty)}
<1>4. Rescued(dirty) \subseteq DOMAIN reads /\ Rescued(dirty) \subseteq Channel
  BY DEF Rescued, Flushed, TypeOK
<1>5. late \subseteq Byte
  BY <1>4, ExtentAssumption DEF TypeOK
<1>6. restore' = RestoreAfterFlush(dirty)
  BY DEF WriteDynamic
<1>7. DOMAIN restore' \subseteq Byte
  BY <1>5, <1>6 DEF RestoreAfterFlush, TypeOK
<1>8. ASSUME NEW b \in DOMAIN restore'
      PROVE  restore'[b] \in Value
  <2>1. CASE b \in late
    <3> DEFINE d == CHOOSE x \in Rescued(dirty) : b \in Extent[x]
    <3>1. d \in Rescued(dirty) /\ b \in Extent[d]
      BY <2>1
    <3>2. restore'[b] = reads[d][b]
      BY <1>6, <2>1 DEF RestoreAfterFlush
    <3> QED
      BY <1>4, <3>1, <3>2 DEF TypeOK, ChannelValue
  <2>2. CASE b \notin late
    BY <1>6, <1>8, <2>2 DEF RestoreAfterFlush, TypeOK
  <2> QED
    BY <2>1, <2>2
<1>9. boundaryKeys' \subseteq Channel
  BY <1>4 DEF WriteDynamic, TypeOK
<1>10. /\ entries' = << >>
       /\ reads' = << >>
       /\ dirty' = {}
       /\ unrestorableStore' = TRUE
       /\ UNCHANGED <<phase, startRegs, exact, written>>
  BY DEF WriteDynamic, history
<1>11. TypeOK'
  BY <1>3, <1>7, <1>8, <1>9, <1>10 DEF TypeOK
<1>12. Coherent'
  BY <1>10 DEF Coherent
<1> QED
  BY <1>11, <1>12

\* The snapshot of the boundary changes neither what is tracked nor memory.
LEMMA BeginStep ==
    ASSUME TypeOK, Coherent, BeginInstruction
    PROVE  TypeOK' /\ Coherent'
<1> DEFINE kept == UNION {Extent[c] : c \in DOMAIN entries}
<1>1. /\ boundaryKeys' = DOMAIN entries
      /\ restore' = [b \in kept |->
                        entries[CHOOSE c \in DOMAIN entries : b \in Extent[c]][b]]
      /\ unrestorableStore' = FALSE
      /\ phase' = "checking"
      /\ exact' = {} /\ written' = {}
      /\ startRegs' = Registers
      /\ UNCHANGED <<mem, entries, dirty, reads>>
  BY DEF BeginInstruction, Snapshot
<1>2. kept \subseteq Byte
  BY ExtentAssumption DEF TypeOK
<1>3. ASSUME NEW b \in kept
      PROVE  restore'[b] \in Value
  <2> DEFINE d == CHOOSE c \in DOMAIN entries : b \in Extent[c]
  <2>1. d \in DOMAIN entries /\ b \in Extent[d]
    OBVIOUS
  <2>2. restore'[b] = entries[d][b]
    BY <1>1
  <2> QED
    BY <2>1, <2>2 DEF TypeOK, ChannelValue
<1>4. Registers \in [Byte -> Value]
  BY StoredType DEF Registers, TypeOK
<1>5. TypeOK'
  BY <1>1, <1>2, <1>3, <1>4 DEF TypeOK, ChannelValue
<1>6. Coherent'
  BY <1>1 DEF Coherent, Overlaps, On
<1> QED
  BY <1>5, <1>6

\* The two ways a path ends: memory is rewritten, the tracker is dropped.
LEMMA ExitStep ==
    ASSUME TypeOK, Coherent, Fault \/ Publish
    PROVE  TypeOK' /\ Coherent'
<1>1. mem' \in [Byte -> Value]
  <2>1. CASE Fault
    BY <2>1 DEF Fault, Restored, TypeOK
  <2>2. CASE Publish
    BY <2>2, StoredType DEF Publish, Registers, TypeOK
  <2> QED
    BY <2>1, <2>2
<1>2. /\ FreshTracker
      /\ phase' = "exited"
      /\ UNCHANGED <<startRegs, exact, written>>
  BY DEF Fault, Publish, history
<1>3. Coherent' /\ DOMAIN entries' = {} /\ DOMAIN restore' = {} /\ DOMAIN reads' = {}
  BY <1>2, DOMAIN << >> = {} DEF FreshTracker, Coherent
<1> QED
  BY <1>1, <1>2, <1>3 DEF FreshTracker, TypeOK

-----------------------------------------------------------------------------
\* No step, whatever the semantics, unsettles the tracker.
LEMMA CoherentStep == TypeOK /\ Coherent /\ [Next]_vars => TypeOK' /\ Coherent'
<1> SUFFICES ASSUME TypeOK, Coherent, [Next]_vars
             PROVE  TypeOK' /\ Coherent'
  OBVIOUS
<1>1. CASE Enter
  <2>1. /\ FreshTracker
        /\ phase' = "between"
        /\ UNCHANGED <<mem, startRegs, exact, written>>
    BY <1>1 DEF Enter, history
  <2>2. Coherent' /\ DOMAIN entries' = {} /\ DOMAIN restore' = {} /\ DOMAIN reads' = {}
    BY <2>1, DOMAIN << >> = {} DEF FreshTracker, Coherent
  <2> QED
    BY <2>1, <2>2 DEF FreshTracker, TypeOK
<1>2. CASE BeginInstruction
  BY <1>2, BeginStep
<1>3. CASE Commit \/ Complete
  <2>1. /\ UNCHANGED <<mem, entries, dirty, boundaryKeys, restore, reads,
                       unrestorableStore, startRegs, exact, written>>
        /\ phase' \in {"committing", "between"}
    BY <1>3 DEF Commit, Complete, tracker, history
  <2> QED
    BY <2>1 DEF TypeOK, Coherent, ChannelValue, Overlaps, On
<1>4. CASE Fault \/ Publish
  BY <1>4, ExitStep
<1>5. ASSUME NEW c \in Channel, Read(c)
      PROVE  TypeOK' /\ Coherent'
  <2>1. CASE ReadTracked(c)
    <3>1. /\ UNCHANGED <<mem, entries, dirty, boundaryKeys, restore, reads,
                         unrestorableStore, phase, startRegs, written>>
          /\ exact' = exact \cup {c}
      BY <1>5, <2>1 DEF Read, ReadTracked, tracker
    <3> QED
      BY <3>1 DEF TypeOK, Coherent, ChannelValue, Overlaps, On
  <2>2. CASE ReadState(c)
    BY <1>5, <2>2, ReadStateStep DEF Read
  <2> QED
    BY <1>5, <2>1, <2>2 DEF Read
<1>6. ASSUME NEW c \in Channel, ReadDynamic(c)
      PROVE  TypeOK' /\ Coherent'
  BY <1>6, ReadDynamicStep
<1>7. ASSUME NEW c \in Channel, NEW v \in ChannelValue(c), Write(c, v)
      PROVE  TypeOK' /\ Coherent'
  BY <1>7, WriteStep
<1>8. ASSUME NEW c \in Channel, NEW v \in ChannelValue(c), WriteDynamic(c, v)
      PROVE  TypeOK' /\ Coherent'
  BY <1>8, WriteDynamicStep
<1>9. CASE UNCHANGED vars
  BY <1>9 DEF vars, tracker, history, TypeOK, Coherent, ChannelValue, Overlaps, On
<1> QED
  BY <1>1, <1>2, <1>3, <1>4, <1>5, <1>6, <1>7, <1>8, <1>9 DEF Next

(***************************************************************************)
(* Whatever channels alias whatever others and whatever the semantics do,  *)
(* the tracker stays typed and coherent: no byte is tracked twice, and     *)
(* clean entries and cached reads are what cpu-state memory holds.         *)
(***************************************************************************)
THEOREM TrackerCoherent == Spec => [](TypeOK /\ Coherent)
<1>1. Init => TypeOK /\ Coherent
  BY EmptyTracker DEF Init, TypeOK
<1> QED
  BY <1>1, CoherentStep, PTL DEF Spec

(***************************************************************************)
(* Entries, boundary and cached reads hold whole channels of known bytes,  *)
(* and every dirty channel has an entry, whatever the semantics do.        *)
(***************************************************************************)
THEOREM TrackerTyped == Spec => []TypeOK
BY TrackerCoherent, PTL

-----------------------------------------------------------------------------
(***************************************************************************)
(* Why a raise can be undone under the "shipped" semantics.  While the     *)
(* instruction can still raise:                                            *)
(*   - writing the boundary over memory gives the starting registers, and  *)
(*     nothing has been stored that the boundary lacks;                    *)
(*   - what is tracked comes from before (and is in the boundary) or was   *)
(*     written by this instruction, each such name read first and alone    *)
(*     among the names that overlap it;                                    *)
(*   - bytes this instruction has not written hold what they held;         *)
(*   - a name read and not overwritten through another name has its        *)
(*     starting value in the boundary, or cached and still in memory.      *)
(***************************************************************************)
Alone(c) == \A d \in written : d # c => ~Overlaps(d, c)

AtStart(c) == On(mem, c) = On(startRegs, c)

EntriesKnown == DOMAIN entries \subseteq boundaryKeys \cup written

BoundaryWhole == \A c \in boundaryKeys : Extent[c] \subseteq DOMAIN restore

WrittenAlone == \A c \in written : c \in exact /\ Alone(c)

UnwrittenHeld ==
    \A b \in Byte :
        (\A d \in written : b \notin Extent[d]) => Registers[b] = startRegs[b]

ReadSettled ==
    \A c \in exact, d \in dirty : d # c /\ Overlaps(d, c) => d \in written

ReadKept ==
    \A c \in exact : Alone(c) =>
        c \in boundaryKeys \/ (c \in DOMAIN reads /\ AtStart(c))

UndoInv ==
    /\ ~unrestorableStore
    /\ Restored = startRegs
    /\ EntriesKnown /\ BoundaryWhole /\ WrittenAlone
    /\ UnwrittenHeld /\ ReadSettled /\ ReadKept

Undoable == phase = "checking" => UndoInv

-----------------------------------------------------------------------------
\* A flush shows nothing to the program: the registers stay what they were.
LEMMA FlushKeepsRegisters ==
    ASSUME TypeOK, Coherent, NEW S \in SUBSET DOMAIN entries
    PROVE  Overlay(Stored(Flushed(S)), entries, dirty \ S) = Registers
<1> DEFINE after == Overlay(Stored(Flushed(S)), entries, dirty \ S)
<1>1. Flushed(S) \in SUBSET DOMAIN entries /\ dirty \in SUBSET DOMAIN entries
  BY DEF Flushed, TypeOK
<1>2. ASSUME NEW b \in Byte
      PROVE  after[b] = Registers[b]
  <2>1. ASSUME NEW c \in dirty \ S, b \in Extent[c]
        PROVE  after[b] = Registers[b]
    <3>1. after[b] = entries[c][b]
      <4>1. \A x, y \in dirty \ S : x # y => ~Overlaps(x, y)
        BY <1>1 DEF Coherent
      <4> QED
        BY <2>1, <4>1, OverlayAt
    <3>2. Registers[b] = entries[c][b]
      BY <1>1, <2>1, StoredAt DEF Registers
    <3> QED
      BY <3>1, <3>2
  <2>2. ASSUME NEW c \in Flushed(S), b \in Extent[c], \A d \in dirty \ S : b \notin Extent[d]
        PROVE  after[b] = Registers[b]
    <3>1. after[b] = Stored(Flushed(S))[b]
      BY <2>2, OverlayElsewhere
    <3>2. Stored(Flushed(S))[b] = entries[c][b]
      BY <1>1, <2>2, StoredAt
    <3>3. Registers[b] = entries[c][b]
      BY <1>1, <2>2, StoredAt DEF Registers, Flushed
    <3> QED
      BY <3>1, <3>2, <3>3
  <2>3. CASE \A d \in dirty : b \notin Extent[d]
    <3>1. after[b] = Stored(Flushed(S))[b]
      BY <2>3, OverlayElsewhere
    <3>2. Stored(Flushed(S))[b] = mem[b]
      BY <2>3, StoredElsewhere DEF Flushed
    <3>3. Registers[b] = mem[b]
      BY <2>3, StoredElsewhere DEF Registers
    <3> QED
      BY <3>1, <3>2, <3>3
  <2> QED
    BY <2>1, <2>2, <2>3 DEF Flushed
<1> QED
  BY <1>2 DEF Overlay, Registers, Stored

\* A flush while the instruction can still raise: what it destroys in memory
\* is in the boundary, or a cached read of the same name puts it there.
LEMMA FlushUndoable ==
    ASSUME TypeOK, Coherent, UndoInv, NEW S \in SUBSET DOMAIN entries,
           FlushStores(S)
    PROVE  /\ ~unrestorableStore'
           /\ Restored' = startRegs
           /\ BoundaryWhole'
           /\ boundaryKeys \subseteq boundaryKeys'
           /\ \A c \in exact : Alone(c) =>
                 \/ c \in boundaryKeys'
                 \/ c \in DOMAIN ReadsAfterFlush(S) /\ On(mem', c) = On(startRegs, c)
<1>1. /\ mem' = Stored(Flushed(S))
      /\ boundaryKeys' = boundaryKeys \cup Rescued(S)
      /\ restore' = RestoreAfterFlush(S)
      /\ unrestorableStore' = (unrestorableStore \/ Lost(S) # {})
  BY DEF FlushStores
<1>2. Flushed(S) \in SUBSET DOMAIN entries /\ Flushed(S) \subseteq dirty
  BY DEF Flushed
\* Every channel flushed outside the boundary has its starting value cached.
<1>3. ASSUME NEW c \in Flushed(S) \ boundaryKeys
      PROVE  c \in DOMAIN reads /\ AtStart(c)
  <2>1. c \in written
    BY <1>2 DEF UndoInv, EntriesKnown
  <2>2. c \in exact /\ Alone(c)
    BY <2>1 DEF UndoInv, WrittenAlone
  <2> QED
    BY <2>2 DEF UndoInv, ReadKept
<1>4. Lost(S) = {}
  BY <1>3 DEF Lost
<1>5. ~unrestorableStore'
  BY <1>1, <1>4 DEF UndoInv
<1> DEFINE late == UNION {Extent[c] : c \in Rescued(S)}
<1>6. DOMAIN restore' = DOMAIN restore \cup late
  BY <1>1 DEF RestoreAfterFlush
<1>7. ASSUME NEW b \in late
      PROVE  restore'[b] = startRegs[b]
  <2> DEFINE d == CHOOSE c \in Rescued(S) : b \in Extent[c]
  <2>1. d \in Rescued(S) /\ b \in Extent[d]
    OBVIOUS
  <2>2. restore'[b] = reads[d][b]
    BY <1>1 DEF RestoreAfterFlush
  <2>3. d \in DOMAIN reads /\ AtStart(d)
    BY <1>3, <2>1 DEF Rescued
  <2>4. reads[d] = On(mem, d)
    BY <2>3 DEF Coherent
  <2>5. reads[d][b] = startRegs[b]
    BY <2>1, <2>3, <2>4 DEF AtStart, On
  <2> QED
    BY <2>2, <2>5
<1>8. ASSUME NEW b \in DOMAIN restore, b \notin late
      PROVE  restore'[b] = restore[b]
  BY <1>1, <1>8 DEF RestoreAfterFlush
<1>9. ASSUME NEW b \in Byte, b \notin DOMAIN restore, b \notin late
      PROVE  mem'[b] = mem[b]
  <2>1. ASSUME NEW c \in Flushed(S)
        PROVE  b \notin Extent[c]
    <3>1. CASE c \in boundaryKeys
      BY <1>9, <3>1 DEF UndoInv, BoundaryWhole
    <3>2. CASE c \notin boundaryKeys
      <4>1. c \in Rescued(S)
        BY <1>3, <3>2 DEF Rescued
      <4> QED
        BY <1>9, <4>1
    <3> QED
      BY <3>1, <3>2
  <2> QED
    BY <1>1, <2>1, StoredElsewhere
<1>10. ASSUME NEW b \in Byte
       PROVE  Restored'[b] = startRegs[b]
  <2>1. Restored[b] = startRegs[b]
    BY DEF UndoInv
  <2>2. CASE b \in late
    BY <1>6, <1>7, <2>2 DEF Restored
  <2>3. CASE b \notin late /\ b \in DOMAIN restore
    BY <1>6, <1>8, <2>1, <2>3 DEF Restored
  <2>4. CASE b \notin late /\ b \notin DOMAIN restore
    BY <1>6, <1>9, <2>1, <2>4 DEF Restored
  <2> QED
    BY <2>2, <2>3, <2>4
<1>11. Restored' = startRegs
  BY <1>10 DEF Restored, TypeOK
<1>12. BoundaryWhole'
  BY <1>1, <1>6 DEF BoundaryWhole, UndoInv
<1>13. ASSUME NEW c \in exact, Alone(c)
       PROVE  \/ c \in boundaryKeys'
              \/ c \in DOMAIN ReadsAfterFlush(S) /\ On(mem', c) = On(startRegs, c)
  <2>1. CASE c \in Flushed(S)
    BY <1>1, <1>3, <2>1 DEF Rescued
  <2>2. CASE c \in boundaryKeys
    BY <1>1, <2>2
  <2>3. CASE c \notin Flushed(S) /\ c \notin boundaryKeys
    <3>1. c \in DOMAIN reads /\ AtStart(c)
      BY <1>13, <2>3 DEF UndoInv, ReadKept
    <3>2. ASSUME NEW d \in Flushed(S)
          PROVE  ~Overlaps(d, c) /\ ~Overlaps(c, d)
      <4>1. d \in dirty /\ d # c
        BY <1>2, <2>3
      <4>2. Overlaps(d, c) => d \in written
        BY <4>1 DEF UndoInv, ReadSettled
      <4>3. ~Overlaps(d, c)
        BY <1>13, <4>1, <4>2 DEF Alone
      <4> QED
        BY <4>3 DEF Overlaps
    <3>3. c \in DOMAIN ReadsAfterFlush(S)
      BY <3>1, <3>2 DEF ReadsAfterFlush, Without
    <3>4. \A b \in Extent[c] : b \in Byte /\ mem'[b] = mem[b]
      <4>1. \A b \in Extent[c] : b \in Byte
        BY <3>1, ExtentAssumption DEF TypeOK
      <4>2. \A b \in Extent[c] : \A d \in Flushed(S) : b \notin Extent[d]
        BY <3>2 DEF Overlaps
      <4> QED
        BY <1>1, <4>1, <4>2, StoredElsewhere
    <3> QED
      BY <3>1, <3>3, <3>4 DEF AtStart, On
  <2> QED
    BY <2>1, <2>2, <2>3
<1> QED
  BY <1>1, <1>5, <1>11, <1>12, <1>13

-----------------------------------------------------------------------------
\* How each operation changes the architectural registers.
LEMMA ReadStateRegisters ==
    ASSUME TypeOK, Coherent, NEW c \in Channel, ReadState(c)
    PROVE  /\ Registers' = Registers
           /\ result' = On(Registers, c)
           /\ On(mem', c) = On(Registers, c)
<1> DEFINE S == OverlappingIn(DOMAIN entries, c)
           left == ReadsAfterFlush(S)
<1>1. S \in SUBSET DOMAIN entries
  BY DEF OverlappingIn
<1>2. /\ mem' = Stored(Flushed(S))
      /\ dirty' = dirty \ S
      /\ entries' = entries
      /\ result' = IF c \in DOMAIN left THEN left[c] ELSE On(mem', c)
  BY DEF ReadState, FlushStores
<1>3. Registers' = Registers
  BY <1>1, <1>2, FlushKeepsRegisters DEF Registers, Stored
<1>4. ASSUME NEW b \in Extent[c]
      PROVE  mem'[b] = Registers[b]
  <2>1. b \in Byte
    BY ExtentAssumption
  <2>2. \A d \in dirty \ S : b \notin Extent[d]
    BY DEF OverlappingIn, Overlaps, TypeOK
  <2> DEFINE after == Overlay(Stored(Flushed(S)), entries, dirty \ S)
  <2>3. Registers[b] = after[b]
    BY <1>1, FlushKeepsRegisters
  <2>4. after[b] = Stored(Flushed(S))[b]
    BY <2>1, <2>2, OverlayElsewhere
  <2> QED
    BY <1>2, <2>3, <2>4
<1>5. On(mem', c) = On(Registers, c)
  BY <1>4 DEF On
<1>6. c \in DOMAIN left => left[c] = On(mem', c)
  BY <1>1, <1>2, FlushedReads
<1> QED
  BY <1>2, <1>3, <1>5, <1>6

\* A tracked channel reads as what the program must see.
LEMMA ReadTrackedRegisters ==
    ASSUME TypeOK, Coherent, NEW c \in DOMAIN entries
    PROVE  entries[c] = On(Registers, c)
<1>1. entries[c] \in [Extent[c] -> Value]
  BY DEF TypeOK, ChannelValue
<1>2. ASSUME NEW b \in Extent[c]
      PROVE  Registers[b] = entries[c][b]
  <2>1. b \in Byte
    BY ExtentAssumption DEF TypeOK
  <2>2. CASE c \in dirty
    BY <2>2, StoredAt DEF Registers, TypeOK
  <2>3. CASE c \notin dirty
    <3>1. \A d \in dirty : b \notin Extent[d]
      BY <2>3 DEF Coherent, Overlaps, TypeOK
    <3>2. Registers[b] = mem[b]
      BY <2>1, <3>1, StoredElsewhere DEF Registers
    <3> QED
      BY <2>3, <3>2 DEF Coherent, On
  <2> QED
    BY <2>2, <2>3
<1> QED
  BY <1>1, <1>2 DEF On

\* A write changes the architectural registers on its channel only: what it
\* drops is covered, what it does not cover is stored first.
LEMMA WriteRegisters ==
    ASSUME TypeOK, Coherent, NEW c \in Channel, NEW v \in ChannelValue(c),
           Write(c, v)
    PROVE  Registers' = [b \in Byte |-> IF b \in Extent[c] THEN v[b] ELSE Registers[b]]
<1> DEFINE others == OverlappingIn(DOMAIN entries \ {c}, c)
           S == {d \in others : ~Covers(c, d)}
           left == ReadsAfterFlush(S)
           kept == Without(entries, others)
<1>1. S \in SUBSET DOMAIN entries /\ dirty \in SUBSET DOMAIN entries
  BY DEF OverlappingIn, TypeOK
<1>2. mem' = Stored(Flushed(S)) /\ Flushed(S) \in SUBSET DOMAIN entries
  BY <1>1 DEF Write, FlushStores, Flushed
<1>3. TypeOK' /\ Coherent'
  BY WriteStep
<1>4. Registers' = Overlay(mem', entries', dirty')
  BY DEF Registers, Stored
<1>5. /\ \A d \in dirty' : d # c => d \in dirty /\ d \notin others /\ entries'[d] = entries[d]
      /\ \A d \in dirty : d \notin dirty' => d \in others \/ d = c
      /\ \/ c \in dirty' /\ entries'[c] = v
         \/ c \notin dirty' /\ c \in DOMAIN left /\ left[c] = v
  <2>1. DOMAIN kept = DOMAIN entries \ others /\ \A d \in DOMAIN kept : kept[d] = entries[d]
    BY DEF Without
  <2>2. CASE /\ c \in DOMAIN left /\ left[c] = v
             /\ entries' = Without(kept, {c})
             /\ dirty' = dirty \ (others \cup {c})
    BY <1>1, <2>1, <2>2 DEF Without
  <2>3. CASE /\ entries' = Put(kept, c, v)
             /\ dirty' = (dirty \ others) \cup {c}
    BY <1>1, <2>1, <2>3 DEF Put
  <2> QED
    BY <2>2, <2>3 DEF Write
<1>6. \A d, e \in dirty' : d # e => ~Overlaps(d, e)
  BY <1>3 DEF Coherent, TypeOK
<1>7. \A d \in dirty' : d # c => ~Overlaps(d, c)
  BY <1>1, <1>5 DEF OverlappingIn
<1>8. ASSUME NEW b \in Byte, b \in Extent[c]
      PROVE  Overlay(mem', entries', dirty')[b] = v[b]
  <2>1. CASE c \in dirty' /\ entries'[c] = v
    BY <1>6, <1>8, <2>1, OverlayAt
  <2>2. CASE c \notin dirty' /\ c \in DOMAIN left /\ left[c] = v
    <3>1. \A d \in dirty' : b \notin Extent[d]
      BY <1>7, <1>8, <2>2 DEF Overlaps
    <3>2. Overlay(mem', entries', dirty')[b] = mem'[b]
      BY <3>1, OverlayElsewhere
    <3>3. v = On(mem', c)
      BY <1>1, <1>2, <2>2, FlushedReads
    <3> QED
      BY <1>8, <3>2, <3>3 DEF On
  <2> QED
    BY <1>5, <2>1, <2>2
<1>9. ASSUME NEW b \in Byte, b \notin Extent[c]
      PROVE  Overlay(mem', entries', dirty')[b] = Registers[b]
  <2>1. ASSUME NEW d \in dirty', b \in Extent[d]
        PROVE  Overlay(mem', entries', dirty')[b] = Registers[b]
    <3>1. d # c /\ d \in dirty /\ entries'[d] = entries[d]
      BY <1>5, <1>9, <2>1
    <3>2. Overlay(mem', entries', dirty')[b] = entries'[d][b]
      BY <1>6, <2>1, OverlayAt
    <3>3. Registers[b] = entries[d][b]
      BY <1>1, <2>1, <3>1, StoredAt DEF Registers
    <3> QED
      BY <3>1, <3>2, <3>3
  <2>2. CASE \A d \in dirty' : b \notin Extent[d]
    <3>1. Overlay(mem', entries', dirty')[b] = Stored(Flushed(S))[b]
      BY <1>2, <2>2, OverlayElsewhere
    <3>2. ASSUME NEW d \in dirty, b \in Extent[d]
          PROVE  Stored(Flushed(S))[b] = Registers[b]
      <4>1. d \in others /\ ~Covers(c, d)
        BY <1>5, <1>9, <2>2, <3>2 DEF Covers
      <4>2. d \in Flushed(S)
        BY <3>2, <4>1 DEF Flushed
      <4>3. Stored(Flushed(S))[b] = entries[d][b]
        BY <1>2, <3>2, <4>2, StoredAt
      <4>4. Registers[b] = entries[d][b]
        BY <1>1, <3>2, StoredAt DEF Registers
      <4> QED
        BY <4>3, <4>4
    <3>3. CASE \A d \in dirty : b \notin Extent[d]
      <4>1. \A d \in Flushed(S) : b \notin Extent[d]
        BY <3>3 DEF Flushed
      <4>2. Stored(Flushed(S))[b] = mem[b]
        BY <4>1, StoredElsewhere
      <4>3. Registers[b] = mem[b]
        BY <3>3, StoredElsewhere DEF Registers
      <4> QED
        BY <3>1, <4>2, <4>3
    <3> QED
      BY <3>1, <3>2, <3>3
  <2> QED
    BY <2>1, <2>2
<1> QED
  BY <1>4, <1>8, <1>9 DEF Overlay

\* A read chosen at run time finds the architectural value in memory.
LEMMA ReadDynamicRegisters ==
    ASSUME TypeOK, Coherent, NEW c \in Channel, ReadDynamic(c)
    PROVE  Registers' = Registers /\ result' = On(Registers, c)
<1>1. dirty \in SUBSET DOMAIN entries /\ Flushed(dirty) = dirty
  BY DEF TypeOK, Flushed
<1>2. /\ mem' = Stored(dirty)
      /\ dirty' = dirty \ dirty
      /\ entries' = entries
      /\ result' = On(mem', c)
  BY <1>1 DEF ReadDynamic, FlushStores
<1>3. Registers' = Registers
  BY <1>1, <1>2, FlushKeepsRegisters DEF Registers, Stored
<1> QED
  BY <1>2, <1>3 DEF Registers

\* A write chosen at run time changes its channel only.
LEMMA WriteDynamicRegisters ==
    ASSUME TypeOK, Coherent, NEW c \in Channel, NEW v \in ChannelValue(c),
           WriteDynamic(c, v)
    PROVE  Registers' = [b \in Byte |-> IF b \in Extent[c] THEN v[b] ELSE Registers[b]]
<1>1. dirty' = {} /\ mem' = [b \in Byte |-> IF b \in Extent[c] THEN v[b] ELSE Stored(dirty)[b]]
  BY DEF WriteDynamic
<1>2. Registers' = Overlay(mem', entries', {})
  BY <1>1 DEF Registers, Stored
<1>3. \A b \in Byte : Overlay(mem', entries', {})[b] = mem'[b]
  BY OverlayElsewhere
<1> QED
  BY <1>1, <1>2, <1>3 DEF Overlay, Registers

-----------------------------------------------------------------------------
\* Each operation of an instruction that can still raise keeps it undoable.
LEMMA ReadUndoable ==
    ASSUME TypeOK, Coherent, UndoInv, phase = "checking", NEW c \in Channel, Read(c)
    PROVE  UndoInv'
<1> DEFINE S == OverlappingIn(DOMAIN entries, c)
           left == ReadsAfterFlush(S)
<1>1. exact' = exact \cup {c} /\ UNCHANGED <<phase, startRegs, written>>
  BY DEF Read
<1>2. \A x : Alone(x)' <=> Alone(x)
  BY <1>1 DEF Alone, Overlaps
<1>3. CASE ReadTracked(c)
  <2>1. /\ c \in DOMAIN entries
        /\ UNCHANGED <<mem, entries, dirty, boundaryKeys, restore, reads, unrestorableStore>>
    BY <1>3 DEF ReadTracked, tracker
  <2>2. /\ ~unrestorableStore' /\ Restored' = startRegs'
        /\ EntriesKnown' /\ BoundaryWhole' /\ UnwrittenHeld'
    BY <1>1, <2>1 DEF UndoInv, Restored, EntriesKnown, BoundaryWhole, UnwrittenHeld,
                      Registers, Stored, Overlay
  <2>3. WrittenAlone'
    BY <1>1, <1>2 DEF UndoInv, WrittenAlone
  <2>4. ReadSettled'
    <3>1. \A d \in dirty : d # c => ~Overlaps(d, c)
      BY <2>1 DEF Coherent, TypeOK
    <3> QED
      BY <1>1, <2>1, <3>1 DEF UndoInv, ReadSettled, Overlaps
  <2>5. ReadKept'
    <3>1. c \in boundaryKeys \/ c \in exact
      BY <2>1 DEF UndoInv, EntriesKnown, WrittenAlone
    <3> QED
      BY <1>1, <1>2, <2>1, <3>1 DEF UndoInv, ReadKept, AtStart, On
  <2> QED
    BY <1>1, <2>2, <2>3, <2>4, <2>5 DEF UndoInv
<1>4. CASE ReadState(c)
  <2>1. S \in SUBSET DOMAIN entries
    BY DEF OverlappingIn
  <2>2. /\ FlushStores(S)
        /\ c \notin DOMAIN entries
        /\ dirty' = dirty \ S
        /\ entries' = entries
        /\ reads' = Put(left, c, result')
    BY <1>4 DEF ReadState
  <2>3. /\ ~unrestorableStore'
        /\ Restored' = startRegs
        /\ BoundaryWhole'
        /\ boundaryKeys \subseteq boundaryKeys'
        /\ \A x \in exact : Alone(x) =>
              x \in boundaryKeys' \/ (x \in DOMAIN left /\ On(mem', x) = On(startRegs, x))
    BY <2>1, <2>2, FlushUndoable
  <2>4. Registers' = Registers /\ On(mem', c) = On(Registers, c)
    BY <1>4, ReadStateRegisters
  <2>5. EntriesKnown'
    BY <1>1, <2>2, <2>3 DEF UndoInv, EntriesKnown
  <2>6. WrittenAlone'
    BY <1>1, <1>2 DEF UndoInv, WrittenAlone
  <2>7. UnwrittenHeld'
    BY <1>1, <2>4 DEF UndoInv, UnwrittenHeld
  <2>8. ReadSettled'
    <3>1. \A d \in dirty' : ~Overlaps(d, c) /\ d \in dirty
      BY <2>2 DEF OverlappingIn, TypeOK
    <3> QED
      BY <1>1, <3>1 DEF UndoInv, ReadSettled, Overlaps
  <2>9. DOMAIN reads' = DOMAIN left \cup {c}
    BY <2>2 DEF Put
  <2>10. ASSUME Alone(c)
         PROVE  c \in boundaryKeys' \/ On(mem', c) = On(startRegs, c)
    <3>1. CASE c \in exact
      BY <2>3, <2>10, <3>1
    <3>2. CASE c \notin exact
      <4>1. \A d \in written : ~Overlaps(d, c)
        BY <2>10, <3>2 DEF UndoInv, WrittenAlone, Alone
      <4>2. \A b \in Extent[c] : b \in Byte /\ \A d \in written : b \notin Extent[d]
        BY <4>1, ExtentAssumption DEF Overlaps
      <4>3. On(Registers, c) = On(startRegs, c)
        BY <4>2 DEF UndoInv, UnwrittenHeld, On
      <4> QED
        BY <2>4, <4>3
    <3> QED
      BY <3>1, <3>2
  <2>11. ReadKept'
    BY <1>1, <1>2, <2>3, <2>9, <2>10 DEF ReadKept, AtStart, On
  <2> QED
    BY <1>1, <2>3, <2>5, <2>6, <2>7, <2>8, <2>11 DEF UndoInv
<1> QED
  BY <1>3, <1>4 DEF Read

\* A read chosen at run time keeps the instruction undoable.
LEMMA ReadDynamicUndoable ==
    ASSUME TypeOK, Coherent, UndoInv, NEW c \in Channel, ReadDynamic(c)
    PROVE  UndoInv'
<1>1. dirty \in SUBSET DOMAIN entries
  BY DEF TypeOK
<1>2. /\ FlushStores(dirty)
      /\ dirty' = {}
      /\ reads' = ReadsAfterFlush(dirty)
      /\ UNCHANGED <<entries, phase, startRegs, exact, written>>
  BY DEF ReadDynamic, history
<1>3. /\ ~unrestorableStore'
      /\ Restored' = startRegs
      /\ BoundaryWhole'
      /\ boundaryKeys \subseteq boundaryKeys'
      /\ \A x \in exact : Alone(x) =>
            x \in boundaryKeys' \/ (x \in DOMAIN reads' /\ On(mem', x) = On(startRegs, x))
  BY <1>1, <1>2, FlushUndoable
<1>4. Registers' = Registers
  BY ReadDynamicRegisters
<1>5. \A x : Alone(x)' <=> Alone(x)
  BY <1>2 DEF Alone, Overlaps
<1>6. EntriesKnown' /\ WrittenAlone' /\ UnwrittenHeld' /\ ReadSettled'
  BY <1>2, <1>3, <1>4, <1>5 DEF UndoInv, EntriesKnown, WrittenAlone, UnwrittenHeld, ReadSettled
<1>7. ReadKept'
  BY <1>2, <1>3, <1>5 DEF ReadKept, AtStart, On
<1> QED
  BY <1>2, <1>3, <1>6, <1>7 DEF UndoInv

\* A write the shipped semantics make keeps the instruction undoable.
LEMMA WriteUndoable ==
    ASSUME TypeOK, Coherent, UndoInv, Semantics = "shipped", phase = "checking",
           NEW c \in Channel, NEW v \in ChannelValue(c), Write(c, v)
    PROVE  UndoInv'
<1> DEFINE others == OverlappingIn(DOMAIN entries \ {c}, c)
           S == {d \in others : ~Covers(c, d)}
           left == ReadsAfterFlush(S)
           kept == Without(entries, others)
<1>1. S \in SUBSET DOMAIN entries
  BY DEF OverlappingIn
<1>2. /\ FlushStores(S)
      /\ reads' = left
      /\ written' = written \cup {c}
      /\ UNCHANGED <<phase, startRegs, exact>>
  BY DEF Write
<1>3. c \in exact /\ Alone(c)
  BY DEF Write, MayWrite, Alone
<1>4. /\ ~unrestorableStore'
      /\ Restored' = startRegs
      /\ BoundaryWhole'
      /\ boundaryKeys \subseteq boundaryKeys'
      /\ \A x \in exact : Alone(x) =>
            x \in boundaryKeys' \/ (x \in DOMAIN left /\ On(mem', x) = On(startRegs, x))
  BY <1>1, <1>2, FlushUndoable
<1>5. DOMAIN entries' \subseteq DOMAIN entries \cup {c} /\ dirty' \subseteq dirty \cup {c}
  <2>1. DOMAIN kept \subseteq DOMAIN entries
    BY DEF Without
  <2> QED
    BY <2>1 DEF Write, Without, Put
<1>6. EntriesKnown'
  BY <1>2, <1>4, <1>5 DEF UndoInv, EntriesKnown
<1>7. WrittenAlone'
  BY <1>2, <1>3 DEF UndoInv, WrittenAlone, Alone, Overlaps
<1>8. UnwrittenHeld'
  <2>1. Registers' = [b \in Byte |-> IF b \in Extent[c] THEN v[b] ELSE Registers[b]]
    BY WriteRegisters
  <2> QED
    BY <1>2, <2>1 DEF UndoInv, UnwrittenHeld
<1>9. ReadSettled'
  BY <1>2, <1>5 DEF UndoInv, ReadSettled, Overlaps
<1>10. \A x : Alone(x)' => Alone(x)
  BY <1>2 DEF Alone, Overlaps
<1>11. ReadKept'
  BY <1>2, <1>4, <1>10 DEF ReadKept, AtStart, On
<1> QED
  BY <1>2, <1>4, <1>6, <1>7, <1>8, <1>9, <1>11 DEF UndoInv

\* The boundary taken at the start restores the start.
LEMMA BeginUndoable ==
    ASSUME TypeOK, Coherent, BeginInstruction
    PROVE  UndoInv'
<1> DEFINE kept == UNION {Extent[c] : c \in DOMAIN entries}
<1>1. /\ boundaryKeys' = DOMAIN entries
      /\ restore' = [b \in kept |->
                        entries[CHOOSE c \in DOMAIN entries : b \in Extent[c]][b]]
      /\ unrestorableStore' = FALSE
      /\ exact' = {} /\ written' = {}
      /\ startRegs' = Registers
      /\ UNCHANGED <<mem, entries, dirty, reads>>
  BY DEF BeginInstruction, Snapshot
<1>2. Registers' = Registers
  BY <1>1 DEF Registers, Stored, Overlay
<1>3. Registers \in [Byte -> Value]
  BY StoredType DEF Registers, TypeOK
<1>4. ASSUME NEW b \in Byte
      PROVE  Restored'[b] = Registers[b]
  <2>1. CASE b \in kept
    <3> DEFINE d == CHOOSE c \in DOMAIN entries : b \in Extent[c]
    <3>1. d \in DOMAIN entries /\ b \in Extent[d]
      BY <2>1
    <3>2. Restored'[b] = entries[d][b]
      BY <1>1, <2>1 DEF Restored
    <3>3. entries[d] = On(Registers, d)
      BY <3>1, ReadTrackedRegisters
    <3> QED
      BY <3>1, <3>2, <3>3 DEF On
  <2>2. CASE b \notin kept
    <3>1. Restored'[b] = mem[b]
      BY <1>1, <2>2 DEF Restored
    <3>2. \A c \in dirty : b \notin Extent[c]
      BY <2>2 DEF TypeOK
    <3>3. Registers[b] = mem[b]
      BY <3>2, StoredElsewhere DEF Registers
    <3> QED
      BY <3>1, <3>3
  <2> QED
    BY <2>1, <2>2
<1>5. Restored' = startRegs'
  BY <1>1, <1>3, <1>4 DEF Restored
<1>6. BoundaryWhole'
  BY <1>1 DEF BoundaryWhole
<1>7. EntriesKnown' /\ WrittenAlone' /\ UnwrittenHeld' /\ ReadSettled' /\ ReadKept'
  BY <1>1, <1>2 DEF EntriesKnown, WrittenAlone, UnwrittenHeld, ReadSettled, ReadKept
<1> QED
  BY <1>1, <1>5, <1>6, <1>7 DEF UndoInv

-----------------------------------------------------------------------------
LEMMA UndoStep ==
    ASSUME Semantics = "shipped"
    PROVE  TypeOK /\ Coherent /\ Undoable /\ [Next]_vars => Undoable'
<1> SUFFICES ASSUME TypeOK, Coherent, Undoable, [Next]_vars, phase' = "checking"
             PROVE  UndoInv'
  BY DEF Undoable
<1>1. CASE BeginInstruction
  BY <1>1, BeginUndoable
<1>2. ASSUME NEW c \in Channel, Read(c)
      PROVE  UndoInv'
  BY <1>2, ReadUndoable DEF Undoable, Read
<1>3. ASSUME NEW c \in Channel, ReadDynamic(c)
      PROVE  UndoInv'
  BY <1>3, ReadDynamicUndoable DEF Undoable, ReadDynamic
<1>4. ASSUME NEW c \in Channel, NEW v \in ChannelValue(c), Write(c, v)
      PROVE  UndoInv'
  BY <1>4, WriteUndoable DEF Undoable, Write
<1>5. ASSUME NEW c \in Channel, NEW v \in ChannelValue(c), WriteDynamic(c, v)
      PROVE  FALSE
  BY <1>5 DEF WriteDynamic
<1>6. CASE Enter \/ Commit \/ Complete \/ Fault \/ Publish
  BY <1>6 DEF Enter, Commit, Complete, Fault, Publish
<1>7. CASE UNCHANGED vars
  <2>1. UNCHANGED <<mem, entries, dirty, boundaryKeys, restore, reads,
                    unrestorableStore, phase, startRegs, exact, written>>
    BY <1>7 DEF vars, tracker, history
  <2> QED
    BY <2>1 DEF Undoable, UndoInv, Restored, EntriesKnown, BoundaryWhole, WrittenAlone,
                UnwrittenHeld, ReadSettled, ReadKept, Registers, Stored, Overlay,
                Alone, AtStart, Overlaps, On
<1> QED
  BY <1>1, <1>2, <1>3, <1>4, <1>5, <1>6, <1>7 DEF Next

LEMMA UndoableFaults == Undoable => BoundaryRestoresStart /\ FaultsAreRestorable
BY DEF Undoable, UndoInv, BoundaryRestoresStart, FaultsAreRestorable

(***************************************************************************)
(* Under the shipped semantics an instruction that can still raise can     *)
(* always be undone: the fault path's assertion never fires and writing    *)
(* the boundary back gives the registers the instruction began with.       *)
(***************************************************************************)
THEOREM FaultUndoesInstruction ==
    ASSUME Semantics = "shipped"
    PROVE  Spec => [](BoundaryRestoresStart /\ FaultsAreRestorable)
<1>1. Init => Undoable
  BY DEF Init, Undoable
<1> QED
  BY <1>1, UndoStep, UndoableFaults, TrackerCoherent, PTL DEF Spec

(***************************************************************************)
(* A write never costs an instruction that can still raise its way back:   *)
(* no fault path meets a boundary the tracker gave up on                   *)
(* (flushesForPath("fault")).                                              *)
(***************************************************************************)
THEOREM EveryFaultHasItsBoundary ==
    ASSUME Semantics = "shipped"
    PROVE  Spec => []FaultsAreRestorable
BY FaultUndoesInstruction, PTL

\* Every step of the tracker is a step of the register file.
LEMMA FileStep ==
    TypeOK /\ Coherent /\ BoundaryRestoresStart /\ FaultsAreRestorable /\ [Next]_vars
      => [File!Next]_(File!vars)
<1> SUFFICES ASSUME TypeOK, Coherent, BoundaryRestoresStart, FaultsAreRestorable,
                    [Next]_vars
             PROVE  [File!Next]_(File!vars)
  OBVIOUS
<1>1. CASE Enter
  <2>1. Registers' = mem
    <3>1. dirty' = {} /\ mem' = mem
      BY <1>1 DEF Enter, FreshTracker
    <3>2. Registers' = Overlay(mem, entries', {})
      BY <3>1 DEF Registers, Stored
    <3> QED
      BY <3>2 DEF Overlay, TypeOK
  <2> QED
    BY <1>1, <2>1 DEF Enter, history, File!Next, File!Enter, NoResult, File!NoResult
<1>2. CASE BeginInstruction
  <2>1. Registers' = Registers
    BY <1>2 DEF BeginInstruction, Snapshot, Registers, Stored, Overlay
  <2> QED
    BY <1>2, <2>1 DEF BeginInstruction, Snapshot, File!Next, File!Begin, NoResult, File!NoResult
<1>3. CASE Commit \/ Complete
  <2>1. Registers' = Registers
    BY <1>3 DEF Commit, Complete, tracker, Registers, Stored, Overlay
  <2> QED
    BY <1>3, <2>1 DEF Commit, Complete, history, File!Next, File!Commit, File!Complete,
                      NoResult, File!NoResult
<1>4. CASE Fault
  <2>1. mem' = startRegs
    BY <1>4 DEF Fault, BoundaryRestoresStart, FaultsAreRestorable
  <2> QED
    BY <1>4, <2>1 DEF Fault, history, File!Next, File!Fault, NoResult, File!NoResult
<1>5. CASE Publish
  BY <1>5 DEF Publish, history, File!Next, File!Publish, NoResult, File!NoResult
<1>6. ASSUME NEW c \in Channel, Read(c)
      PROVE  File!Read(c)
  <2>1. Registers' = Registers /\ result' = On(Registers, c)
    <3>1. CASE ReadTracked(c)
      BY <3>1, ReadTrackedRegisters
         DEF ReadTracked, tracker, Registers, Stored, Overlay
    <3>2. CASE ReadState(c)
      BY <3>2, ReadStateRegisters
    <3> QED
      BY <1>6, <3>1, <3>2 DEF Read
  <2> QED
    BY <1>6, <2>1 DEF Read, Running, File!Read, File!Running, On, File!On
<1>7. ASSUME NEW c \in Channel, ReadDynamic(c)
      PROVE  File!Read(c)
  <2>1. Registers' = Registers /\ result' = On(Registers, c)
    BY <1>7, ReadDynamicRegisters
  <2> QED
    BY <1>7, <2>1 DEF ReadDynamic, history, Running, File!Read, File!Running, On, File!On
<1>8. ASSUME NEW c \in Channel, NEW v \in ChannelValue(c), Write(c, v)
      PROVE  File!Write(c, v)
  <2>1. Registers' = [b \in Byte |-> IF b \in Extent[c] THEN v[b] ELSE Registers[b]]
    BY <1>8, WriteRegisters
  <2>2. /\ phase \in {"checking", "committing"} /\ phase' = phase
        /\ startRegs' = startRegs /\ result' = v
    BY <1>8 DEF Write, Running
  <2> QED
    BY <2>1, <2>2 DEF File!Write, File!Running
<1>9. ASSUME NEW c \in Channel, NEW v \in ChannelValue(c), WriteDynamic(c, v)
      PROVE  File!Write(c, v)
  <2>1. Registers' = [b \in Byte |-> IF b \in Extent[c] THEN v[b] ELSE Registers[b]]
    BY <1>9, WriteDynamicRegisters
  <2>2. /\ phase \in {"checking", "committing"} /\ phase' = phase
        /\ startRegs' = startRegs /\ result' = v
    BY <1>9 DEF WriteDynamic, history
  <2> QED
    BY <2>1, <2>2 DEF File!Write, File!Running
<1>10. CASE UNCHANGED vars
  BY <1>10 DEF vars, tracker, history, File!vars, Registers, Stored, Overlay
<1> QED
  BY <1>1, <1>2, <1>3, <1>4, <1>5, <1>6, <1>7, <1>8, <1>9, <1>10
     DEF Next, File!Next, ChannelValue

(***************************************************************************)
(* The tracker with its memory implements the register transaction, for    *)
(* every set of channels and every aliasing: reads return the contents the *)
(* program wrote last, whatever width it wrote them through, a raise       *)
(* leaves the instruction's starting registers, and a completed path the   *)
(* registers it wrote.                                                     *)
(***************************************************************************)
THEOREM TrackerImplementsRegisterFile ==
    ASSUME Semantics = "shipped"
    PROVE  Spec => RegisterTransaction
<1>1. Init => File!Init
  BY DEF Init, File!Init, NoResult, File!NoResult
<1> QED
  BY <1>1, FileStep, TrackerCoherent, FaultUndoesInstruction, PTL
     DEF Spec, RegisterTransaction, File!Spec

-----------------------------------------------------------------------------
(***************************************************************************)
(* Structured control.                                                     *)
(***************************************************************************)
\* No channel of W overlaps c.
Apart(c, W) == \A w \in W : ~Overlaps(c, w)

\* A tracker whose values have the width of their channels, no byte twice.
Fits(t) ==
    /\ DOMAIN t = {"entries", "dirty", "boundaryKeys", "restore", "reads",
                   "unrestorable"}
    /\ DOMAIN t.entries \subseteq Channel
    /\ \A c \in DOMAIN t.entries : t.entries[c] \in ChannelValue(c)
    /\ t.dirty \subseteq DOMAIN t.entries
    /\ t.boundaryKeys \subseteq Channel
    /\ DOMAIN t.restore \subseteq Byte
    /\ \A b \in DOMAIN t.restore : t.restore[b] \in Value
    /\ DOMAIN t.reads \subseteq Channel
    /\ \A c \in DOMAIN t.reads : t.reads[c] \in ChannelValue(c)
    /\ t.unrestorable \in BOOLEAN
    /\ Disjoint(DOMAIN t.entries)

\* What is stored and what is cached is what memory m holds.
HeldIn(t, m) ==
    /\ \A c \in DOMAIN t.entries \ t.dirty : t.entries[c] = On(m, c)
    /\ \A c \in DOMAIN t.reads : t.reads[c] = On(m, c)

-----------------------------------------------------------------------------
\* Overlap is symmetric, and every channel overlaps itself.
LEMMA OverlapFacts ==
    /\ \A c, d : Overlaps(c, d) <=> Overlaps(d, c)
    /\ \A c \in Channel : Overlaps(c, c)
    /\ \A c \in Channel : Extent[c] \subseteq Byte
    /\ \A c, d, b : b \in Extent[c] /\ b \in Extent[d] => Overlaps(c, d)
BY ExtentAssumption DEF Overlaps

\* The six variables of the tracker as the record a scope keeps.
LEMMA TrackerFits ==
    ASSUME TypeOK, Coherent
    PROVE  /\ Fits(Tracker) /\ HeldIn(Tracker, mem)
           /\ Tracker.entries = entries /\ Tracker.dirty = dirty
           /\ Tracker.boundaryKeys = boundaryKeys /\ Tracker.restore = restore
           /\ Tracker.reads = reads /\ Tracker.unrestorable = unrestorableStore
<1>1. /\ DOMAIN Tracker = {"entries", "dirty", "boundaryKeys", "restore",
                           "reads", "unrestorable"}
      /\ Tracker.entries = entries /\ Tracker.dirty = dirty
      /\ Tracker.boundaryKeys = boundaryKeys /\ Tracker.restore = restore
      /\ Tracker.reads = reads /\ Tracker.unrestorable = unrestorableStore
  BY DEF Tracker
<1>2. Fits(Tracker)
  BY <1>1 DEF Fits, TypeOK, Coherent, Disjoint
<1>3. HeldIn(Tracker, mem)
  BY <1>1 DEF HeldIn, Coherent
<1> QED
  BY <1>1, <1>2, <1>3

\* A record put back that fits and that memory holds is a coherent tracker.
LEMMA SetTrackerFits ==
    ASSUME NEW t, Fits(t), SetTracker(t), HeldIn(t, mem'),
           mem' \in [Byte -> Value],
           phase' \in {"exited", "between", "checking", "committing"},
           startRegs' \in [Byte -> Value], exact' \subseteq Channel,
           written' \subseteq Channel
    PROVE  TypeOK' /\ Coherent'
<1>1. /\ entries' = t.entries /\ dirty' = t.dirty
      /\ boundaryKeys' = t.boundaryKeys /\ restore' = t.restore
      /\ reads' = t.reads /\ unrestorableStore' = t.unrestorable
  BY DEF SetTracker
<1>2. TypeOK'
  BY <1>1 DEF TypeOK, Fits, ChannelValue
<1>3. Coherent'
  BY <1>1 DEF Coherent, Fits, HeldIn, Disjoint, Overlaps, On
<1> QED
  BY <1>2, <1>3

LEMMA InvalidatedFields ==
    ASSUME NEW t, Fits(t), NEW W, NEW u, u = Invalidated(t, W)
    PROVE  /\ Fits(u)
           /\ DOMAIN u.entries = {c \in DOMAIN t.entries : Apart(c, W)}
           /\ \A c \in DOMAIN u.entries : u.entries[c] = t.entries[c]
           /\ u.dirty = {c \in t.dirty : Apart(c, W)}
           /\ DOMAIN u.reads = {c \in DOMAIN t.reads : Apart(c, W)}
           /\ \A c \in DOMAIN u.reads : u.reads[c] = t.reads[c]
           /\ u.boundaryKeys = t.boundaryKeys /\ u.restore = t.restore
           /\ u.unrestorable = t.unrestorable
<1>1. /\ DOMAIN u = {"entries", "dirty", "boundaryKeys", "restore", "reads",
                     "unrestorable"}
      /\ u.entries = Without(t.entries, {c \in DOMAIN t.entries : ~Apart(c, W)})
      /\ u.dirty = {c \in t.dirty : Apart(c, W)}
      /\ u.reads = Without(t.reads, {c \in DOMAIN t.reads : ~Apart(c, W)})
      /\ u.boundaryKeys = t.boundaryKeys /\ u.restore = t.restore
      /\ u.unrestorable = t.unrestorable
  BY DEF Invalidated, Fits, Apart
<1>2. /\ DOMAIN u.entries = {c \in DOMAIN t.entries : Apart(c, W)}
      /\ \A c \in DOMAIN u.entries : u.entries[c] = t.entries[c]
      /\ DOMAIN u.reads = {c \in DOMAIN t.reads : Apart(c, W)}
      /\ \A c \in DOMAIN u.reads : u.reads[c] = t.reads[c]
  BY <1>1 DEF Without
<1>3. Fits(u)
  BY <1>1, <1>2 DEF Fits, Disjoint
<1> QED
  BY <1>1, <1>2, <1>3

\* Flushing some of what is pending: what overlaps it is no longer cached.
LEMMA AfterFlushFields ==
    ASSUME NEW t, Fits(t), NEW F \in SUBSET t.dirty, NEW u, u = AfterFlush(t, F)
    PROVE  /\ Fits(u)
           /\ u.entries = t.entries
           /\ u.dirty = t.dirty \ F
           /\ DOMAIN u.reads = {c \in DOMAIN t.reads : Apart(c, F)}
           /\ \A c \in DOMAIN u.reads : u.reads[c] = t.reads[c]
           /\ F = {} => /\ u.boundaryKeys = t.boundaryKeys
                        /\ DOMAIN u.restore = DOMAIN t.restore
                        /\ \A b \in DOMAIN t.restore : u.restore[b] = t.restore[b]
                        /\ u.unrestorable = t.unrestorable
<1> DEFINE late == (F \ t.boundaryKeys) \cap DOMAIN t.reads
           bytes == UNION {Extent[c] : c \in late}
           kept == {r \in DOMAIN t.reads : \E c \in F : Overlaps(r, c)}
<1>1. /\ DOMAIN u = {"entries", "dirty", "boundaryKeys", "restore", "reads",
                     "unrestorable"}
      /\ u.entries = t.entries
      /\ u.dirty = t.dirty \ F
      /\ u.boundaryKeys = t.boundaryKeys \cup late
      /\ u.restore = [b \in DOMAIN t.restore \cup bytes |->
                         IF b \in bytes
                         THEN t.reads[CHOOSE c \in late : b \in Extent[c]][b]
                         ELSE t.restore[b]]
      /\ u.reads = Without(t.reads, kept)
      /\ u.unrestorable = (t.unrestorable \/ (F \ t.boundaryKeys) # late)
  BY DEF AfterFlush, Fits
<1>2. /\ DOMAIN u.reads = {c \in DOMAIN t.reads : Apart(c, F)}
      /\ \A c \in DOMAIN u.reads : u.reads[c] = t.reads[c]
  BY <1>1, OverlapFacts DEF Without, Apart
<1>3. ASSUME NEW b \in bytes
      PROVE  b \in Byte /\ t.reads[CHOOSE c \in late : b \in Extent[c]][b] \in Value
  <2> DEFINE d == CHOOSE c \in late : b \in Extent[c]
  <2>1. d \in late /\ b \in Extent[d]
    BY <1>3
  <2> HIDE DEF d
  <2>2. d \in Channel /\ t.reads[d] \in [Extent[d] -> Value]
    BY <2>1 DEF Fits, ChannelValue
  <2> QED
    BY <2>1, <2>2, OverlapFacts DEF d
<1>4. /\ DOMAIN u.restore \subseteq Byte
      /\ \A b \in DOMAIN u.restore : u.restore[b] \in Value
  <2>1. DOMAIN u.restore = DOMAIN t.restore \cup bytes
    BY <1>1
  <2> QED
    BY <1>1, <1>3, <2>1 DEF Fits
<1>5. u.unrestorable \in BOOLEAN
  BY <1>1 DEF Fits
<1>6. u.boundaryKeys \subseteq Channel
  BY <1>1 DEF Fits
<1>7. Fits(u)
  BY <1>1, <1>2, <1>4, <1>5, <1>6 DEF Fits
<1>8. ASSUME F = {}
      PROVE  /\ u.boundaryKeys = t.boundaryKeys
             /\ DOMAIN u.restore = DOMAIN t.restore
             /\ \A b \in DOMAIN t.restore : u.restore[b] = t.restore[b]
             /\ u.unrestorable = t.unrestorable
  <2>1. late = {} /\ bytes = {} /\ F \ t.boundaryKeys = {}
    BY <1>8
  <2>2. u.unrestorable = t.unrestorable
    BY <1>1, <2>1 DEF Fits
  <2> HIDE DEF late, bytes
  <2> QED
    BY <1>1, <2>1, <2>2
<1> QED
  BY <1>1, <1>2, <1>7, <1>8

\* The loop inputs on top of what the loop does not carry.
LEMMA CarryingFields ==
    ASSUME NEW t, Fits(t), NEW W \in SUBSET Channel, Disjoint(W),
           NEW values, DOMAIN values = W, \A c \in W : values[c] \in ChannelValue(c),
           NEW u, u = Carrying(t, values)
    PROVE  /\ Fits(u)
           /\ DOMAIN u.entries = {c \in DOMAIN t.entries : Apart(c, W)} \cup W
           /\ \A c \in W : u.entries[c] = values[c]
           /\ \A c \in DOMAIN u.entries \ W : u.entries[c] = t.entries[c]
           /\ u.dirty = {c \in t.dirty : Apart(c, W)} \cup W
           /\ u.reads = t.reads
<1> DEFINE v == Invalidated(t, W)
<1>1. /\ Fits(v)
      /\ DOMAIN v.entries = {c \in DOMAIN t.entries : Apart(c, W)}
      /\ \A c \in DOMAIN v.entries : v.entries[c] = t.entries[c]
      /\ v.dirty = {c \in t.dirty : Apart(c, W)}
  BY InvalidatedFields
<1>2. /\ DOMAIN u = {"entries", "dirty", "boundaryKeys", "restore", "reads",
                     "unrestorable"}
      /\ u.entries = [c \in DOMAIN v.entries \cup W |->
                         IF c \in W THEN values[c] ELSE v.entries[c]]
      /\ u.dirty = v.dirty \cup W
      /\ u.boundaryKeys = t.boundaryKeys /\ u.restore = t.restore
      /\ u.reads = t.reads /\ u.unrestorable = t.unrestorable
  <2> HIDE DEF v
  <2> QED
    BY DEF Carrying, Fits, v
<1> HIDE DEF v
<1>3. /\ DOMAIN u.entries = DOMAIN v.entries \cup W
      /\ \A c \in W : u.entries[c] = values[c]
      /\ \A c \in DOMAIN u.entries \ W : u.entries[c] = v.entries[c]
  BY <1>2
<1>4. Disjoint(DOMAIN u.entries)
  BY <1>1, <1>3, OverlapFacts DEF Disjoint, Apart, Fits
<1>5. \A c \in DOMAIN u.entries : u.entries[c] \in ChannelValue(c)
  BY <1>1, <1>3 DEF Fits
<1>6. DOMAIN u.entries \subseteq Channel /\ u.dirty \subseteq DOMAIN u.entries
  BY <1>1, <1>2, <1>3 DEF Fits
<1>7. Fits(u)
  BY <1>2, <1>4, <1>5, <1>6 DEF Fits
<1> QED
  BY <1>1, <1>2, <1>3, <1>7

\* A boundary marked here has every tracked value and nothing stored before.
LEMMA BoundaryHereFields ==
    ASSUME NEW t, Fits(t), NEW u, u = BoundaryHere(t)
    PROVE  /\ Fits(u)
           /\ u.entries = t.entries /\ u.dirty = t.dirty /\ u.reads = t.reads
           /\ u.boundaryKeys = DOMAIN t.entries
           /\ DOMAIN u.restore = UNION {Extent[c] : c \in DOMAIN t.entries}
           /\ \A c \in DOMAIN t.entries : \A b \in Extent[c] :
                 u.restore[b] = t.entries[c][b]
           /\ u.unrestorable = FALSE
<1> DEFINE kept == UNION {Extent[c] : c \in DOMAIN t.entries}
<1>1. /\ DOMAIN u = {"entries", "dirty", "boundaryKeys", "restore", "reads",
                     "unrestorable"}
      /\ u.entries = t.entries /\ u.dirty = t.dirty /\ u.reads = t.reads
      /\ u.boundaryKeys = DOMAIN t.entries
      /\ u.restore = [b \in kept |->
             t.entries[CHOOSE c \in DOMAIN t.entries : b \in Extent[c]][b]]
      /\ u.unrestorable = FALSE
  BY DEF BoundaryHere, Fits
<1>2. ASSUME NEW c \in DOMAIN t.entries, NEW b \in Extent[c]
      PROVE  u.restore[b] = t.entries[c][b] /\ b \in Byte /\ t.entries[c][b] \in Value
  <2> DEFINE d == CHOOSE x \in DOMAIN t.entries : b \in Extent[x]
  <2>1. d \in DOMAIN t.entries /\ b \in Extent[d]
    BY <1>2
  <2>2. d = c
    BY <1>2, <2>1, OverlapFacts DEF Fits, Disjoint
  <2>3. b \in kept
    BY <1>2
  <2>4. u.restore[b] = t.entries[d][b]
    BY <1>1, <2>3
  <2> HIDE DEF d
  <2>5. c \in Channel /\ t.entries[c] \in [Extent[c] -> Value]
    BY DEF Fits, ChannelValue
  <2> QED
    BY <1>2, <2>2, <2>4, <2>5, OverlapFacts
<1>3. DOMAIN u.restore = kept
  BY <1>1
<1>4. /\ DOMAIN u.restore \subseteq Byte
      /\ \A b \in DOMAIN u.restore : u.restore[b] \in Value
  <2> SUFFICES ASSUME NEW b \in DOMAIN u.restore
               PROVE  b \in Byte /\ u.restore[b] \in Value
    OBVIOUS
  <2>1. PICK c \in DOMAIN t.entries : b \in Extent[c]
    BY <1>3
  <2> QED
    BY <1>2, <2>1
<1> HIDE DEF kept
<1>5. u.boundaryKeys \subseteq Channel /\ u.unrestorable \in BOOLEAN
  BY <1>1 DEF Fits
<1>6. Fits(u)
  BY <1>1, <1>4, <1>5 DEF Fits
<1> QED
  BY <1>1, <1>2, <1>3, <1>6 DEF kept

-----------------------------------------------------------------------------
(***************************************************************************)
(* Why an arm can put its snapshot back.  In the "aligned" programs no arm *)
(* flushes, so between the opening of an arm and now                       *)
(*   - the pending stores are those of the snapshot, but for the names the *)
(*     log has since gained and what overlaps them (Follows);              *)
(*   - memory has moved only where stores of those names, and of what was  *)
(*     pending and overlaps them, have moved it (Held);                    *)
(* and the join forgets just those names.  While the instruction can still *)
(* raise, an arm has written nothing, and the names it read before are as  *)
(* recoverable from the snapshot as they were (UndoFor).                   *)
(***************************************************************************)
IsArm(x) == x.kind # "loop"

Follows(s, t, L) ==
    /\ t.dirty \subseteq s.dirty \cup L
    /\ \A d \in s.dirty : Apart(d, L) => d \in t.dirty /\ t.entries[d] = s.entries[d]

Held(s, m, L) ==
    /\ \A c \in DOMAIN s.entries \ s.dirty : Apart(c, L) => s.entries[c] = On(m, c)
    /\ \A c \in DOMAIN s.reads :
          Apart(c, L) /\ (\A d \in s.dirty : Apart(d, L) \/ ~Overlaps(c, d))
             => s.reads[c] = On(m, c)

\* The names written since arm i of q opened, l being the current log.
Since(q, l, i) ==
    l \cup {c \in Channel : \E k \in DOMAIN q : k < i /\ IsArm(q[k]) /\ c \in q[k].log}

\* The names written after arm j of q opened and before arm i did, inside it.
Between(q, i, j) ==
    {c \in Channel :
        \E k \in DOMAIN q : i <= k /\ k < j /\ IsArm(q[k]) /\ c \in q[k].log}

ArmFits(x) ==
    /\ x.kind \in {"then", "else"}
    /\ Fits(x.saved)
    /\ x.log \subseteq Channel /\ x.settled \subseteq Channel
    /\ x.exact \subseteq Channel /\ x.written \subseteq Channel
    /\ \A c \in x.settled, d \in x.saved.dirty : d # c => ~Overlaps(d, c)
    /\ \A c \in x.exact, d \in x.saved.dirty :
          d # c /\ Overlaps(d, c) => d \in x.written

(***************************************************************************)
(* In a loop nothing is stored: what is pending at the top stays pending,  *)
(* and only the carried names change value.                                *)
(***************************************************************************)
LoopFits(x, l, t, m) ==
    /\ DOMAIN x = {"kind", "carried", "entry", "top", "iteration"}
    /\ x.kind = "loop"
    /\ x.carried \subseteq Channel /\ Disjoint(x.carried) /\ x.carried \subseteq l
    /\ Fits(x.top) /\ HeldIn(x.top, m) /\ x.entry = m
    /\ x.carried \subseteq x.top.dirty
    /\ t.dirty \subseteq x.top.dirty
    /\ \A d \in x.top.dirty \ x.carried :
          d \in t.dirty /\ t.entries[d] = x.top.entries[d]

\* A loop is innermost and stands in an arm; the root keeps no log.
Nested(q, l, t, m) ==
    /\ \E S : q \in Seq(S)
    /\ l \subseteq Channel /\ Disjoint(l)
    /\ q = << >> => l = {}
    /\ \A i \in DOMAIN q :
          IF i = 1 /\ ~IsArm(q[1]) THEN 2 \in DOMAIN q /\ LoopFits(q[1], l, t, m)
          ELSE ArmFits(q[i])

Chain(q, l, t, m) ==
    /\ \A i \in DOMAIN q : IsArm(q[i]) =>
          /\ Follows(q[i].saved, t, Since(q, l, i))
          /\ Held(q[i].saved, m, Since(q, l, i))
    /\ \A i, j \in DOMAIN q : i < j /\ IsArm(q[i]) =>
          Follows(q[j].saved, q[i].saved, Between(q, i, j))

SameValues(f, g) == DOMAIN f = DOMAIN g /\ \A x \in DOMAIN f : f[x] = g[x]

Agrees(s, t) ==
    /\ SameValues(s.entries, t.entries) /\ s.dirty = t.dirty
    /\ s.boundaryKeys = t.boundaryKeys
    /\ SameValues(s.restore, t.restore)
    /\ s.unrestorable = t.unrestorable

\* What UndoInv asks of the names read (exact) and the cached reads, of X and R.
UndoFor(X, R) ==
    /\ written \subseteq X
    /\ \A c \in X, d \in dirty : d # c /\ Overlaps(d, c) => d \in written
    /\ \A c \in X : Alone(c) => c \in boundaryKeys \/ (c \in R /\ AtStart(c))

ArmsUndoable ==
    phase = "checking" /\ ~InLoop =>
        /\ log = {}
        /\ \A i \in DOMAIN scopes :
              /\ Agrees(scopes[i].saved, Tracker)
              /\ scopes[i].log = {} /\ scopes[i].written = written
              /\ UndoFor(scopes[i].exact, DOMAIN scopes[i].saved.reads)

StructuredInv ==
    /\ TypeOK /\ Coherent /\ Undoable /\ ReadSettled
    /\ phase = "exited" => scopes = << >>
    /\ Nested(scopes, log, Tracker, mem)
    /\ Chain(scopes, log, Tracker, mem)
    /\ ArmsUndoable

-----------------------------------------------------------------------------
\* Tracker changes add up.
LEMMA FollowsTrans ==
    ASSUME NEW s, NEW t, NEW u, NEW L, NEW M, NEW N,
           Follows(s, t, L), Follows(t, u, M), L \subseteq N, M \subseteq N
    PROVE  Follows(s, u, N)
BY DEF Follows, Apart

LEMMA FollowsMore ==
    ASSUME NEW s, NEW t, NEW L, NEW N, Follows(s, t, L), L \subseteq N
    PROVE  Follows(s, t, N)
BY DEF Follows, Apart

LEMMA FollowsSame ==
    ASSUME NEW s, NEW t, NEW L, s.dirty = t.dirty,
           \A d \in s.dirty : t.entries[d] = s.entries[d]
    PROVE  Follows(s, t, L)
BY DEF Follows

\* Memory moves only where names of N, or pending names that overlap one, stand.
LEMMA HeldMoves ==
    ASSUME NEW s, Fits(s), NEW m, NEW n, NEW L, NEW N, Held(s, m, L), L \subseteq N,
           \A b \in Byte : \/ n[b] = m[b]
                           \/ \E d \in N : b \in Extent[d]
                           \/ \E d \in s.dirty : ~Apart(d, N) /\ b \in Extent[d]
    PROVE  Held(s, n, N)
<1>1. \A c : Apart(c, N) => Apart(c, L)
  BY DEF Apart
<1>2. ASSUME NEW c \in Channel, Apart(c, N),
             \A d \in s.dirty : Apart(d, N) \/ ~Overlaps(c, d)
      PROVE  On(n, c) = On(m, c)
  <2>1. ASSUME NEW b \in Extent[c]
        PROVE  n[b] = m[b]
    <3>1. b \in Byte
      BY OverlapFacts
    <3>2. \A d \in N : b \notin Extent[d]
      BY <1>2, <2>1, OverlapFacts DEF Apart
    <3>3. \A d \in s.dirty : ~Apart(d, N) => b \notin Extent[d]
      BY <1>2, <2>1, OverlapFacts
    <3> QED
      BY <3>1, <3>2, <3>3
  <2> QED
    BY <2>1 DEF On
<1>3. ASSUME NEW c \in DOMAIN s.entries \ s.dirty, Apart(c, N)
      PROVE  s.entries[c] = On(n, c)
  <2>1. \A d \in s.dirty : ~Overlaps(c, d)
    BY DEF Fits, Disjoint
  <2>2. c \in Channel /\ s.entries[c] = On(m, c)
    BY <1>1, <1>3 DEF Held, Fits
  <2> QED
    BY <1>2, <1>3, <2>1, <2>2
<1>4. ASSUME NEW c \in DOMAIN s.reads, Apart(c, N),
             \A d \in s.dirty : Apart(d, N) \/ ~Overlaps(c, d)
      PROVE  s.reads[c] = On(n, c)
  <2>1. \A d \in s.dirty : Apart(d, L) \/ ~Overlaps(c, d)
    BY <1>1, <1>4
  <2>2. c \in Channel /\ s.reads[c] = On(m, c)
    BY <1>1, <1>4, <2>1 DEF Held, Fits
  <2> QED
    BY <1>2, <1>4, <2>2
<1> QED
  BY <1>3, <1>4 DEF Held

-----------------------------------------------------------------------------
\* Scopes are opened and left at the head of the sequence.
LEMMA Pushed ==
    ASSUME NEW S, NEW q \in Seq(S), NEW x, NEW r, r = << x >> \o q
    PROVE  /\ r \in Seq(S \cup {x})
           /\ r[1] = x /\ r # << >> /\ Head(r) = x
           /\ DOMAIN r = 1..(Len(q) + 1) /\ DOMAIN q = 1..Len(q) /\ Len(q) \in Nat
           /\ \A i \in DOMAIN q : r[i + 1] = q[i] /\ i + 1 \in DOMAIN r
           /\ \A i \in DOMAIN r : i = 1 \/ (i - 1 \in DOMAIN q /\ r[i] = q[i - 1])
<1>1. q \in Seq(S \cup {x}) /\ << x >> \in Seq(S \cup {x})
  OBVIOUS
<1>2. r \in Seq(S \cup {x})
  BY <1>1
<1>3. Len(r) = Len(q) + 1 /\ Len(q) \in Nat
  OBVIOUS
<1>4. \A i \in 1..Len(r) : r[i] = IF i <= 1 THEN x ELSE q[i - 1]
  OBVIOUS
<1> QED
  BY <1>2, <1>3, <1>4

LEMMA Popped ==
    ASSUME NEW S, NEW q \in Seq(S), q # << >>, NEW r, r = Tail(q)
    PROVE  /\ r \in Seq(S)
           /\ 1 \in DOMAIN q /\ q[1] = Head(q)
           /\ DOMAIN q = 1..Len(q) /\ Len(q) \in Nat /\ Len(q) >= 1
           /\ DOMAIN r = 1..(Len(q) - 1)
           /\ \A i \in DOMAIN r : r[i] = q[i + 1] /\ i + 1 \in DOMAIN q
           /\ \A i \in DOMAIN q : i = 1 \/ (i - 1 \in DOMAIN r /\ q[i] = r[i - 1])
           /\ r = << >> <=> 2 \notin DOMAIN q
<1>1. r \in Seq(S) /\ Len(r) = Len(q) - 1 /\ Len(q) \in Nat /\ Len(q) >= 1
  OBVIOUS
<1>2. \A i \in 1..Len(r) : r[i] = q[i + 1]
  OBVIOUS
<1>3. r = << >> <=> Len(r) = 0
  BY <1>1, EmptySeq
<1> QED
  BY <1>1, <1>2, <1>3

\* The head of the scopes replaced.
LEMMA Replaced ==
    ASSUME NEW S, NEW q \in Seq(S), q # << >>, NEW x, NEW r, r = << x >> \o Tail(q)
    PROVE  /\ r \in Seq(S \cup {x})
           /\ r # << >> /\ r[1] = x /\ Head(r) = x
           /\ DOMAIN r = DOMAIN q /\ DOMAIN q = 1..Len(q) /\ Len(q) \in Nat
           /\ \A i \in DOMAIN q : i = 1 \/ r[i] = q[i]
<1>1. q \in Seq(S \cup {x}) /\ << x >> \in Seq(S \cup {x})
  OBVIOUS
<1>2. /\ Tail(q) \in Seq(S \cup {x}) /\ Len(Tail(q)) = Len(q) - 1
      /\ Len(q) \in Nat /\ Len(q) >= 1
      /\ \A i \in 1..(Len(q) - 1) : Tail(q)[i] = q[i + 1]
  BY <1>1
<1>3. r \in Seq(S \cup {x}) /\ Len(r) = Len(q)
  BY <1>1, <1>2
<1>4. \A i \in 1..Len(r) : r[i] = IF i <= 1 THEN x ELSE Tail(q)[i - 1]
  BY <1>1, <1>2
<1>5. \A i \in 1..Len(r) : i = 1 \/ r[i] = q[i]
  BY <1>2, <1>3, <1>4
<1> QED
  BY <1>2, <1>3, <1>4, <1>5

-----------------------------------------------------------------------------
\* Every snapshot follows a change of the innermost state and of memory, once
\* the log names what was stored.
LEMMA ChainMoved ==
    ASSUME NEW q, NEW l, NEW t, NEW m, Chain(q, l, t, m),
           \A i \in DOMAIN q : IsArm(q[i]) => Fits(q[i].saved),
           NEW N, l \subseteq N, NEW u, Follows(t, u, N), NEW n,
           \A b \in Byte : \/ n[b] = m[b]
                           \/ \E d \in N : b \in Extent[d]
                           \/ \E d \in t.dirty : ~Apart(d, N) /\ b \in Extent[d]
    PROVE  Chain(q, N, u, n)
<1>1. ASSUME NEW i \in DOMAIN q, IsArm(q[i])
      PROVE  /\ Follows(q[i].saved, u, Since(q, N, i))
             /\ Held(q[i].saved, n, Since(q, N, i))
  <2> DEFINE s == q[i].saved
             A == Since(q, l, i)
             B == Since(q, N, i)
  <2>1. A \subseteq B /\ N \subseteq B
    BY DEF Since
  <2>2. Follows(s, t, A) /\ Held(s, m, A) /\ Fits(s)
    BY <1>1 DEF Chain
  <2> HIDE DEF s, A, B
  <2>3. Follows(s, u, B)
    BY <2>1, <2>2, FollowsTrans
  <2>4. ASSUME NEW b \in Byte
        PROVE  \/ n[b] = m[b]
               \/ \E d \in B : b \in Extent[d]
               \/ \E d \in s.dirty : ~Apart(d, B) /\ b \in Extent[d]
    BY <2>1, <2>2 DEF Follows, Apart
  <2>5. Held(s, n, B)
    BY <2>1, <2>2, <2>4, HeldMoves
  <2> QED
    BY <2>3, <2>5 DEF s, B
<1>2. ASSUME NEW i \in DOMAIN q, NEW j \in DOMAIN q, i < j, IsArm(q[i])
      PROVE  Follows(q[j].saved, q[i].saved, Between(q, i, j))
  BY <1>2 DEF Chain
<1> QED
  BY <1>1, <1>2 DEF Chain

\* An arm opens on the tracker as it is.
LEMMA ChainPushed ==
    ASSUME NEW S, NEW q \in Seq(S), NEW l \in SUBSET Channel, NEW t, NEW m,
           Chain(q, l, t, m), \A i \in DOMAIN q : IsArm(q[i]) /\ Fits(q[i].saved),
           HeldIn(t, m), NEW x, IsArm(x), x.saved = t, x.log = l,
           NEW r, r = << x >> \o q
    PROVE  Chain(r, {}, t, m)
<1>1. /\ r[1] = x
      /\ DOMAIN r = 1..(Len(q) + 1) /\ DOMAIN q = 1..Len(q) /\ Len(q) \in Nat
      /\ \A i \in DOMAIN q : r[i + 1] = q[i] /\ i + 1 \in DOMAIN r
      /\ \A i \in DOMAIN r : i = 1 \/ (i - 1 \in DOMAIN q /\ r[i] = q[i - 1])
  BY Pushed
<1>2. ASSUME NEW j \in DOMAIN r, j # 1
      PROVE  /\ Since(q, l, j - 1) \subseteq Since(r, {}, j)
             /\ Since(q, l, j - 1) \subseteq Between(r, 1, j)
  <2>1. ASSUME NEW c \in Since(q, l, j - 1)
        PROVE  c \in Channel /\ \E k \in DOMAIN r : k < j /\ IsArm(r[k]) /\ c \in r[k].log
    <3>1. CASE c \in l
      BY <1>1, <1>2, <3>1
    <3>2. CASE c \notin l
      <4>1. c \in Channel
        BY <3>2 DEF Since
      <4>2. PICK k \in DOMAIN q : k < j - 1 /\ IsArm(q[k]) /\ c \in q[k].log
        BY <3>2 DEF Since
      <4>3. k + 1 \in DOMAIN r /\ r[k + 1] = q[k] /\ k + 1 < j
        BY <1>1, <4>2
      <4> QED
        BY <4>1, <4>2, <4>3
    <3> QED
      BY <3>1, <3>2
  <2>2. \A k \in DOMAIN r : 1 <= k
    BY <1>1
  <2> QED
    BY <2>1, <2>2 DEF Since, Between
<1>3. ASSUME NEW i \in DOMAIN r
      PROVE  /\ Follows(r[i].saved, t, Since(r, {}, i))
             /\ Held(r[i].saved, m, Since(r, {}, i))
  <2>1. CASE i = 1
    <3>1. Follows(t, t, Since(r, {}, i))
      BY FollowsSame
    <3>2. Held(t, m, Since(r, {}, i))
      BY DEF Held, HeldIn
    <3> QED
      BY <1>1, <2>1, <3>1, <3>2
  <2>2. CASE i # 1
    <3> DEFINE A == Since(q, l, i - 1)
               B == Since(r, {}, i)
               s == q[i - 1].saved
    <3>1. r[i].saved = s /\ A \subseteq B
      BY <1>1, <1>2, <2>2
    <3>2. Follows(s, t, A) /\ Held(s, m, A) /\ Fits(s)
      BY <1>1, <2>2 DEF Chain
    <3> HIDE DEF A, B, s
    <3>3. Follows(s, t, B)
      BY <3>1, <3>2, FollowsMore
    <3>4. Held(s, m, B)
      BY <3>1, <3>2, HeldMoves
    <3> QED
      BY <3>1, <3>3, <3>4 DEF B
  <2> QED
    BY <2>1, <2>2
<1>4. ASSUME NEW i \in DOMAIN r, NEW j \in DOMAIN r, i < j
      PROVE  Follows(r[j].saved, r[i].saved, Between(r, i, j))
  <2>1. j # 1 /\ j - 1 \in DOMAIN q /\ r[j] = q[j - 1]
    BY <1>1, <1>4
  <2>2. CASE i = 1
    <3>1. Follows(q[j - 1].saved, t, Since(q, l, j - 1))
      BY <1>1, <2>1 DEF Chain
    <3>2. Follows(q[j - 1].saved, t, Between(r, 1, j))
      BY <1>2, <2>1, <3>1, FollowsMore
    <3> QED
      BY <1>1, <2>1, <2>2, <3>2
  <2>3. CASE i # 1
    <3>1. i - 1 \in DOMAIN q /\ r[i] = q[i - 1] /\ i - 1 < j - 1
      BY <1>1, <1>4, <2>3
    <3>2. Follows(q[j - 1].saved, q[i - 1].saved, Between(q, i - 1, j - 1))
      BY <2>1, <3>1 DEF Chain
    <3>3. Between(q, i - 1, j - 1) \subseteq Between(r, i, j)
      <4> SUFFICES ASSUME NEW c \in Between(q, i - 1, j - 1)
                   PROVE  c \in Between(r, i, j)
        OBVIOUS
      <4>1. PICK k \in DOMAIN q : i - 1 <= k /\ k < j - 1 /\ IsArm(q[k]) /\ c \in q[k].log
        BY DEF Between
      <4>2. k + 1 \in DOMAIN r /\ r[k + 1] = q[k] /\ i <= k + 1 /\ k + 1 < j
        BY <1>1, <4>1
      <4> QED
        BY <4>1, <4>2 DEF Between
    <3>4. Follows(q[j - 1].saved, q[i - 1].saved, Between(r, i, j))
      BY <3>2, <3>3, FollowsMore
    <3> QED
      BY <2>1, <3>1, <3>4
  <2> QED
    BY <2>2, <2>3
<1> QED
  BY <1>3, <1>4 DEF Chain

\* A loop joins, renews or leaves the head of the scopes: the arms stay, D away.
LEMMA ChainShifted ==
    ASSUME NEW q, NEW l, NEW t, NEW m, Chain(q, l, t, m), NEW r, NEW D \in Int,
           DOMAIN q \subseteq Nat, DOMAIN r \subseteq Nat \ {0},
           \A i \in DOMAIN r : IsArm(r[i]) \/ i = 1,
           \A i \in DOMAIN r : IsArm(r[i]) => i + D \in DOMAIN q /\ q[i + D] = r[i],
           \A i \in DOMAIN q : IsArm(q[i]) => i - D \in DOMAIN r /\ r[i - D] = q[i],
           \A i \in DOMAIN q : IsArm(q[i]) => Fits(q[i].saved)
    PROVE  Chain(r, l, t, m)
<1>1. ASSUME NEW i \in DOMAIN r, IsArm(r[i])
      PROVE  /\ Follows(r[i].saved, t, Since(r, l, i))
             /\ Held(r[i].saved, m, Since(r, l, i))
  <2> DEFINE A == Since(q, l, i + D)
             B == Since(r, l, i)
             s == r[i].saved
  <2>1. i + D \in DOMAIN q /\ q[i + D] = r[i]
    BY <1>1
  <2>2. A \subseteq B
    <3> SUFFICES ASSUME NEW c \in A, c \notin l
                 PROVE  c \in B
      BY DEF Since
    <3>1. c \in Channel
      BY DEF Since
    <3>2. PICK k \in DOMAIN q : k < i + D /\ IsArm(q[k]) /\ c \in q[k].log
      BY DEF Since
    <3>3. k - D \in DOMAIN r /\ r[k - D] = q[k] /\ k - D < i
      BY <3>2
    <3> QED
      BY <3>1, <3>2, <3>3 DEF Since
  <2>3. Follows(s, t, A) /\ Held(s, m, A) /\ Fits(s)
    BY <1>1, <2>1 DEF Chain
  <2> HIDE DEF A, B, s
  <2>4. Follows(s, t, B)
    BY <2>2, <2>3, FollowsMore
  <2>5. Held(s, m, B)
    BY <2>2, <2>3, HeldMoves
  <2> QED
    BY <2>4, <2>5 DEF B, s
<1>2. ASSUME NEW i \in DOMAIN r, NEW j \in DOMAIN r, i < j, IsArm(r[i])
      PROVE  Follows(r[j].saved, r[i].saved, Between(r, i, j))
  <2>1. j # 1 /\ IsArm(r[j])
    BY <1>2
  <2>2. /\ i + D \in DOMAIN q /\ q[i + D] = r[i]
        /\ j + D \in DOMAIN q /\ q[j + D] = r[j]
        /\ i + D < j + D
    BY <1>2, <2>1
  <2>3. Follows(r[j].saved, r[i].saved, Between(q, i + D, j + D))
    BY <1>2, <2>2 DEF Chain
  <2>4. Between(q, i + D, j + D) \subseteq Between(r, i, j)
    <3> SUFFICES ASSUME NEW c \in Between(q, i + D, j + D)
                 PROVE  c \in Between(r, i, j)
      OBVIOUS
    <3>1. PICK k \in DOMAIN q : i + D <= k /\ k < j + D /\ IsArm(q[k]) /\ c \in q[k].log
      BY DEF Between
    <3>2. k - D \in DOMAIN r /\ r[k - D] = q[k] /\ i <= k - D /\ k - D < j
      BY <3>1
    <3> QED
      BY <3>1, <3>2 DEF Between
  <2> QED
    BY <2>3, <2>4, FollowsMore
<1> QED
  BY <1>1, <1>2 DEF Chain

\* An arm is left for its snapshot, changed by names of J which memory has
\* taken: what the enclosing arm had written and J become its log.
LEMMA ChainPopped ==
    ASSUME NEW S, NEW q \in Seq(S), q # << >>, NEW l \in SUBSET Channel,
           NEW t, NEW m, Chain(q, l, t, m),
           \A i \in DOMAIN q : IsArm(q[i]) /\ Fits(q[i].saved),
           NEW J, l \subseteq J, NEW N, q[1].log \subseteq N, J \subseteq N,
           NEW u, Follows(q[1].saved, u, J), NEW n,
           \A b \in Byte : \/ n[b] = m[b]
                           \/ \E d \in t.dirty : ~Apart(d, J) /\ b \in Extent[d]
                           \/ \E d \in q[1].saved.dirty : ~Apart(d, J) /\ b \in Extent[d],
           NEW r, r = Tail(q)
    PROVE  Chain(r, N, u, n)
<1>1. /\ 1 \in DOMAIN q
      /\ DOMAIN q = 1..Len(q) /\ Len(q) \in Nat /\ Len(q) >= 1
      /\ DOMAIN r = 1..(Len(q) - 1)
      /\ \A i \in DOMAIN r : r[i] = q[i + 1] /\ i + 1 \in DOMAIN q
      /\ \A i \in DOMAIN q : i = 1 \/ (i - 1 \in DOMAIN r /\ q[i] = r[i - 1])
  BY Popped
<1>2. ASSUME NEW i \in DOMAIN r
      PROVE  /\ Follows(r[i].saved, u, Since(r, N, i))
             /\ Held(r[i].saved, n, Since(r, N, i))
  <2> DEFINE A == Since(q, l, i + 1)
             G == Between(q, 1, i + 1)
             B == Since(r, N, i)
             s == r[i].saved
             p == q[1].saved
  <2>1. i + 1 \in DOMAIN q /\ q[i + 1] = r[i] /\ 1 < i + 1
    BY <1>1
  <2>2. N \subseteq B
    BY DEF Since
  <2>3. G \subseteq B
    <3> SUFFICES ASSUME NEW c \in G, c \notin N
                 PROVE  c \in B
      BY DEF Since
    <3>1. c \in Channel
      BY DEF Between
    <3>2. PICK k \in DOMAIN q : k < i + 1 /\ IsArm(q[k]) /\ c \in q[k].log
      BY DEF Between
    <3>3. k # 1
      BY <3>2
    <3>4. k - 1 \in DOMAIN r /\ r[k - 1] = q[k] /\ k - 1 < i
      BY <1>1, <3>2, <3>3
    <3> QED
      BY <3>1, <3>2, <3>4 DEF Since
  <2>4. A \subseteq B
    <3>1. l \subseteq B
      BY <2>2
    <3>2. \A k \in DOMAIN q : 1 <= k
      BY <1>1
    <3>3. A \subseteq l \cup G
      BY <3>2 DEF Since, Between
    <3> QED
      BY <2>3, <3>1, <3>3
  <2>5. Follows(s, t, A) /\ Held(s, m, A) /\ Fits(s)
    BY <1>1, <2>1 DEF Chain
  <2>6. Follows(s, p, G)
    BY <1>1, <2>1 DEF Chain
  <2>7. Follows(p, u, J)
    OBVIOUS
  <2> HIDE DEF A, G, B, s
  <2>8. Follows(s, u, B)
    BY <2>2, <2>3, <2>6, <2>7, FollowsTrans
  <2>9. \A d \in t.dirty : d \in s.dirty \/ d \in B
    BY <2>4, <2>5 DEF Follows
  <2>10. \A d \in p.dirty : d \in s.dirty \/ d \in B
    BY <2>3, <2>6 DEF Follows
  <2>11. \A d : ~Apart(d, J) => ~Apart(d, B)
    BY <2>2 DEF Apart
  <2>12. \A b \in Byte : \/ n[b] = m[b]
                         \/ \E d \in t.dirty : ~Apart(d, J) /\ b \in Extent[d]
                         \/ \E d \in p.dirty : ~Apart(d, J) /\ b \in Extent[d]
    OBVIOUS
  <2> HIDE DEF p
  <2>13. ASSUME NEW b \in Byte
         PROVE  \/ n[b] = m[b]
                \/ \E d \in B : b \in Extent[d]
                \/ \E d \in s.dirty : ~Apart(d, B) /\ b \in Extent[d]
    BY <2>9, <2>10, <2>11, <2>12
  <2>14. Held(s, n, B)
    BY <2>4, <2>5, <2>13, HeldMoves
  <2> QED
    BY <2>8, <2>14 DEF B, s
<1>3. ASSUME NEW i \in DOMAIN r, NEW j \in DOMAIN r, i < j
      PROVE  Follows(r[j].saved, r[i].saved, Between(r, i, j))
  <2>1. /\ i + 1 \in DOMAIN q /\ q[i + 1] = r[i]
        /\ j + 1 \in DOMAIN q /\ q[j + 1] = r[j]
        /\ i + 1 < j + 1
    BY <1>1, <1>3
  <2>2. Follows(r[j].saved, r[i].saved, Between(q, i + 1, j + 1))
    BY <2>1 DEF Chain
  <2>3. Between(q, i + 1, j + 1) \subseteq Between(r, i, j)
    <3> SUFFICES ASSUME NEW c \in Between(q, i + 1, j + 1)
                 PROVE  c \in Between(r, i, j)
      OBVIOUS
    <3>1. PICK k \in DOMAIN q : i + 1 <= k /\ k < j + 1 /\ IsArm(q[k]) /\ c \in q[k].log
      BY DEF Between
    <3>2. k - 1 \in DOMAIN r /\ r[k - 1] = q[k] /\ i <= k - 1 /\ k - 1 < j
      BY <1>1, <3>1
    <3> QED
      BY <3>1, <3>2 DEF Between
  <2> QED
    BY <2>2, <2>3, FollowsMore
<1> QED
  BY <1>2, <1>3 DEF Chain

-----------------------------------------------------------------------------
\* The scopes outside a loop: all of them arms.
LEMMA ArmsOpen ==
    ASSUME Nested(scopes, log, Tracker, mem), ~InLoop
    PROVE  \A i \in DOMAIN scopes : IsArm(scopes[i]) /\ ArmFits(scopes[i])
<1>1. ASSUME scopes # << >>
      PROVE  IsArm(scopes[1])
  BY <1>1 DEF InLoop, AtRoot, Inner, IsArm, Nested
<1> SUFFICES ASSUME NEW i \in DOMAIN scopes
             PROVE  IsArm(scopes[i]) /\ ArmFits(scopes[i])
  OBVIOUS
<1>2. scopes # << >>
  BY DOMAIN << >> = {}
<1> QED
  BY <1>1, <1>2 DEF Nested, ArmFits, IsArm

\* The scopes inside one: the loop, and the arms it stands in.
LEMMA LoopOpen ==
    ASSUME Nested(scopes, log, Tracker, mem), InLoop
    PROVE  /\ scopes # << >> /\ 1 \in DOMAIN scopes /\ 2 \in DOMAIN scopes
           /\ Inner = scopes[1] /\ ~IsArm(scopes[1])
           /\ LoopFits(Inner, log, Tracker, mem)
           /\ \A i \in DOMAIN scopes \ {1} : IsArm(scopes[i]) /\ ArmFits(scopes[i])
<1>1. scopes # << >> /\ 1 \in DOMAIN scopes /\ Inner = scopes[1] /\ ~IsArm(scopes[1])
  BY DEF InLoop, AtRoot, Inner, IsArm, Nested
<1> QED
  BY <1>1 DEF Nested, ArmFits, IsArm

\* What fits an arm shows no write, so outside loops nothing else is asked.
LEMMA NestedArms ==
    ASSUME NEW q, \E S : q \in Seq(S), NEW l \in SUBSET Channel, Disjoint(l),
           q = << >> => l = {}, \A i \in DOMAIN q : ArmFits(q[i]), NEW t, NEW m
    PROVE  Nested(q, l, t, m)
BY DEF Nested, ArmFits, IsArm

LEMMA OpenArmStep ==
    ASSUME StructuredInv, NEW which \in {"then", "else"}, OpenArm(which)
    PROVE  StructuredInv'
<1> DEFINE x == [kind |-> which, saved |-> Tracker, log |-> log, exact |-> exact,
                 written |-> written, settled |-> Settled]
<1>1. /\ scopes' = << x >> \o scopes /\ log' = {} /\ ~InLoop
      /\ UNCHANGED <<mem, entries, dirty, boundaryKeys, restore, reads,
                     unrestorableStore, phase, result, startRegs, exact, written>>
      /\ Running
  BY DEF OpenArm, vars, tracker, history
<1>2. /\ x.kind = which /\ x.saved = Tracker /\ x.log = log /\ x.exact = exact
      /\ x.written = written /\ x.settled = Settled
  OBVIOUS
<1> HIDE DEF x
<1>3. /\ TypeOK /\ Coherent /\ Undoable /\ ReadSettled
      /\ Nested(scopes, log, Tracker, mem)
      /\ Chain(scopes, log, Tracker, mem)
      /\ ArmsUndoable
  BY DEF StructuredInv
<1>4. /\ Fits(Tracker) /\ HeldIn(Tracker, mem)
      /\ Tracker.entries = entries /\ Tracker.dirty = dirty
      /\ Tracker.boundaryKeys = boundaryKeys /\ Tracker.restore = restore
      /\ Tracker.reads = reads /\ Tracker.unrestorable = unrestorableStore
  BY <1>3, TrackerFits
<1>5. \A i \in DOMAIN scopes : IsArm(scopes[i]) /\ ArmFits(scopes[i])
  BY <1>1, <1>3, ArmsOpen
<1>6. ArmFits(x)
  <2>1. \A c \in Settled, d \in dirty : d # c => ~Overlaps(d, c)
    BY <1>3, OverlapFacts DEF Settled, ReadSettled
  <2>2. Settled \subseteq Channel
    BY <1>3 DEF Settled, TypeOK
  <2> QED
    BY <1>2, <1>3, <1>4, <2>1, <2>2 DEF ArmFits, TypeOK, ReadSettled, Nested
<1>7. PICK S : scopes \in Seq(S)
  BY <1>3 DEF Nested
<1>8. /\ scopes' \in Seq(S \cup {x})
      /\ scopes'[1] = x /\ scopes' # << >> /\ Head(scopes') = x
      /\ \A i \in DOMAIN scopes' : i = 1 \/ (i - 1 \in DOMAIN scopes /\ scopes'[i] = scopes[i - 1])
  BY <1>1, <1>7, Pushed
<1>9. Tracker' = Tracker /\ mem' = mem
  BY <1>1 DEF Tracker
<1>10. Nested(scopes', log', Tracker', mem')
  <2>1. \A i \in DOMAIN scopes' : ArmFits(scopes'[i])
    BY <1>5, <1>6, <1>8
  <2>2. Disjoint({})
    BY DEF Disjoint
  <2> QED
    BY <1>1, <1>8, <2>1, <2>2, NestedArms
<1>11. Chain(scopes', log', Tracker', mem')
  <2>1. log \in SUBSET Channel
    BY <1>3 DEF Nested
  <2>2. \A i \in DOMAIN scopes : IsArm(scopes[i]) /\ Fits(scopes[i].saved)
    BY <1>5 DEF ArmFits
  <2>3. IsArm(x)
    BY <1>2 DEF IsArm
  <2>4. Chain(<< x >> \o scopes, {}, Tracker, mem)
    BY <1>2, <1>3, <1>4, <1>7, <2>1, <2>2, <2>3, ChainPushed
  <2> QED
    BY <1>1, <1>9, <2>4
<1>12. ArmsUndoable'
  <2> SUFFICES ASSUME phase' = "checking", NEW i \in DOMAIN scopes'
               PROVE  /\ Agrees(scopes'[i].saved, Tracker')
                      /\ scopes'[i].log = {} /\ scopes'[i].written = written'
                      /\ UndoFor(scopes'[i].exact, DOMAIN scopes'[i].saved.reads)
    BY <1>1 DEF ArmsUndoable, UndoFor, Alone, AtStart, Overlaps, On
  <2>2. CASE i = 1
    <3>1. UndoFor(exact, DOMAIN reads)
      BY <1>1, <1>3, <2>2 DEF Undoable, UndoInv, UndoFor, WrittenAlone, ReadSettled, ReadKept
    <3>2. Agrees(Tracker, Tracker)
      BY DEF Agrees, SameValues
    <3>3. log = {}
      BY <1>1, <1>3 DEF ArmsUndoable
    <3> QED
      BY <1>1, <1>2, <1>4, <1>8, <1>9, <2>2, <3>1, <3>2, <3>3
  <2>3. CASE i # 1
    BY <1>1, <1>3, <1>8, <1>9, <2>3 DEF ArmsUndoable
  <2> QED
    BY <2>2, <2>3
<1>13. TypeOK' /\ Coherent' /\ Undoable' /\ ReadSettled'
  BY <1>1, <1>3
     DEF TypeOK, Coherent, ChannelValue, Undoable, UndoInv, Restored, EntriesKnown,
         BoundaryWhole, WrittenAlone, UnwrittenHeld, ReadSettled, ReadKept, Registers,
         Stored, Overlay, Alone, AtStart, Overlaps, On
<1>14. phase' # "exited"
  BY <1>1 DEF Running
<1> QED
  BY <1>10, <1>11, <1>12, <1>13, <1>14 DEF StructuredInv

-----------------------------------------------------------------------------
\* A flush of nothing pending.
LEMMA NothingFlushed ==
    ASSUME TypeOK, NEW S, Flushed(S) = {}, FlushStores(S)
    PROVE  /\ mem' = mem /\ boundaryKeys' = boundaryKeys
           /\ SameValues(restore, restore')
           /\ unrestorableStore' = unrestorableStore
<1>1. Rescued(S) = {} /\ Lost(S) = {}
  BY DEF Rescued, Lost
<1>2. mem' = mem
  BY DEF FlushStores, Stored, Overlay, TypeOK
<1>3. boundaryKeys' = boundaryKeys /\ unrestorableStore' = unrestorableStore
  BY <1>1 DEF FlushStores, TypeOK
<1>4. SameValues(restore, restore')
  <2> DEFINE late == UNION {Extent[c] : c \in Rescued(S)}
  <2>1. late = {}
    BY <1>1
  <2>2. restore' = [b \in DOMAIN restore \cup late |->
                       IF b \in late
                       THEN reads[CHOOSE c \in Rescued(S) : b \in Extent[c]][b]
                       ELSE restore[b]]
    BY DEF FlushStores, RestoreAfterFlush
  <2> HIDE DEF late
  <2> QED
    BY <2>1, <2>2 DEF SameValues
<1> QED
  BY <1>2, <1>3, <1>4

\* Inside a scope a read moves nothing but the cached reads.
LEMMA ReadNameQuiet ==
    ASSUME StructuredInv, Programs = "aligned", NEW c \in Channel, ReadName(c)
    PROVE  /\ Read(c)
           /\ ~AtRoot => /\ UNCHANGED <<mem, entries, dirty, boundaryKeys,
                                        unrestorableStore>>
                         /\ SameValues(restore, restore')
<1>1. TypeOK /\ Nested(scopes, log, Tracker, mem)
  BY DEF StructuredInv
<1>2. CASE ReadTracked(c)
  BY <1>2 DEF ReadName, Read, ReadTracked, tracker, SameValues
<1>3. CASE ReadMemory(c)
  <2> DEFINE S == OverlappingIn(DOMAIN entries, c)
             left == ReadsAfterFlush(S)
  <2>1. /\ c \notin DOMAIN entries
        /\ ~AtRoot => Flushed(S) = {}
        /\ FlushStores(S)
        /\ dirty' = dirty \ S
        /\ result' = IF c \in DOMAIN left THEN left[c] ELSE On(PlacedAt, c)
        /\ reads' = Put(left, c, result')
        /\ entries' = entries
    BY <1>3 DEF ReadMemory
  <2>2. ~AtRoot => /\ UNCHANGED <<mem, boundaryKeys, unrestorableStore>>
                   /\ SameValues(restore, restore')
                   /\ dirty' = dirty
    BY <1>1, <2>1, NothingFlushed DEF Flushed
  <2>3. PlacedAt = mem'
    <3>1. CASE InLoop
      BY <1>1, <2>2, <3>1, LoopOpen DEF PlacedAt, LoopFits, InLoop
    <3>2. CASE ~InLoop
      BY <3>2 DEF PlacedAt
    <3> QED
      BY <3>1, <3>2
  <2>4. ReadState(c)
    BY <2>1, <2>3 DEF ReadState
  <2> QED
    BY <2>1, <2>2, <2>4 DEF ReadName, Read
<1> QED
  BY <1>2, <1>3 DEF ReadName

\* A write adds its name to what is pending, and leaves what it does not overlap.
LEMMA WriteFollows ==
    ASSUME TypeOK, NEW c \in Channel, NEW v, Write(c, v)
    PROVE  /\ dirty' \subseteq dirty \cup {c}
           /\ \A d \in dirty : ~Overlaps(d, c) => d \in dirty' /\ entries'[d] = entries[d]
<1> DEFINE others == OverlappingIn(DOMAIN entries \ {c}, c)
           kept == Without(entries, others)
<1>1. \/ entries' = Without(kept, {c}) /\ dirty' = dirty \ (others \cup {c})
      \/ entries' = Put(kept, c, v) /\ dirty' = (dirty \ others) \cup {c}
  BY DEF Write
<1>2. ASSUME NEW d \in dirty, ~Overlaps(d, c)
      PROVE  d \in dirty' /\ entries'[d] = entries[d]
  <2>1. d \notin others /\ d # c /\ d \in DOMAIN entries
    BY <1>2, OverlapFacts DEF OverlappingIn, TypeOK
  <2>2. d \in DOMAIN kept /\ kept[d] = entries[d]
    BY <2>1 DEF Without
  <2> HIDE DEF others, kept
  <2> QED
    BY <1>1, <2>1, <2>2 DEF Without, Put
<1> QED
  BY <1>1, <1>2

\* Inside a scope a write stores nothing: what it overlaps is not pending.
LEMMA WriteNameQuiet ==
    ASSUME StructuredInv, NEW c \in Channel, NEW v, WriteName(c, v), ~AtRoot
    PROVE  mem' = mem
<1> DEFINE others == OverlappingIn(DOMAIN entries \ {c}, c)
           S == {d \in others : ~Covers(c, d)}
<1>1. /\ TypeOK /\ Coherent
      /\ Nested(scopes, log, Tracker, mem) /\ Chain(scopes, log, Tracker, mem)
  BY DEF StructuredInv
<1>2. Tracker.dirty = dirty
  BY <1>1, TrackerFits
<1>3. ASSUME NEW d \in dirty, d # c
      PROVE  ~Overlaps(d, c)
  <2>1. CASE InLoop
    <3>1. LoopFits(Inner, log, Tracker, mem) /\ c \in Inner.carried
      BY <1>1, <2>1, LoopOpen DEF WriteName
    <3>2. d \in DOMAIN Inner.top.entries /\ c \in DOMAIN Inner.top.entries
      BY <1>2, <3>1 DEF LoopFits, Fits
    <3> QED
      BY <1>3, <3>1, <3>2 DEF LoopFits, Fits, Disjoint
  <2>2. CASE ~InLoop
    <3>1. c \in Inner.settled /\ Disjoint(log \cup {c})
      BY <2>2 DEF WriteName, InArm, InLoop
    <3>2. 1 \in DOMAIN scopes /\ Inner = scopes[1] /\ DOMAIN scopes \subseteq Nat \ {0}
      BY <1>1 DEF Nested, AtRoot, Inner
    <3>3. IsArm(scopes[1]) /\ ArmFits(scopes[1])
      BY <1>1, <2>2, <3>2, ArmsOpen
    <3>4. Since(scopes, log, 1) = log
      BY <3>2 DEF Since
    <3>5. d \in Inner.saved.dirty \/ d \in log
      BY <1>1, <1>2, <3>2, <3>3, <3>4 DEF Chain, Follows
    <3> QED
      BY <1>3, <3>1, <3>2, <3>3, <3>5 DEF ArmFits, Disjoint
  <2> QED
    BY <2>1, <2>2
<1>4. Flushed(S) = {}
  BY <1>3, OverlapFacts DEF Flushed, OverlappingIn
<1>5. FlushStores(S)
  BY DEF WriteName, Write
<1> HIDE DEF S
<1> QED
  BY <1>1, <1>4, <1>5, NothingFlushed

LEMMA TrackerFields ==
    /\ Tracker.entries = entries /\ Tracker.dirty = dirty
    /\ Tracker.boundaryKeys = boundaryKeys /\ Tracker.restore = restore
    /\ Tracker.reads = reads /\ Tracker.unrestorable = unrestorableStore
    /\ Tracker'.entries = entries' /\ Tracker'.dirty = dirty'
    /\ Tracker'.boundaryKeys = boundaryKeys' /\ Tracker'.restore = restore'
    /\ Tracker'.reads = reads' /\ Tracker'.unrestorable = unrestorableStore'
BY DEF Tracker

\* A step inside the scopes that opens and leaves none and stores nothing.
LEMMA ScopesKept ==
    ASSUME StructuredInv, ~AtRoot, scopes' = scopes, mem' = mem,
           log \subseteq log', log' \subseteq Channel, Disjoint(log'),
           Follows(Tracker, Tracker', log'),
           InLoop => LoopFits(Inner, log', Tracker', mem)
    PROVE  /\ Nested(scopes', log', Tracker', mem')
           /\ Chain(scopes', log', Tracker', mem')
<1>1. Nested(scopes, log, Tracker, mem) /\ Chain(scopes, log, Tracker, mem)
  BY DEF StructuredInv
<1>2. Nested(scopes, log', Tracker', mem)
  <2>1. CASE InLoop
    BY <1>1, <2>1, LoopOpen DEF Nested, AtRoot
  <2>2. CASE ~InLoop
    BY <1>1, <2>2, ArmsOpen, NestedArms DEF Nested, AtRoot
  <2> QED
    BY <2>1, <2>2
<1>3. \A i \in DOMAIN scopes : IsArm(scopes[i]) => Fits(scopes[i].saved)
  <2>1. CASE InLoop
    BY <1>1, <2>1, LoopOpen DEF ArmFits
  <2>2. CASE ~InLoop
    BY <1>1, <2>2, ArmsOpen DEF ArmFits
  <2> QED
    BY <2>1, <2>2
<1>4. Chain(scopes, log', Tracker', mem)
  BY <1>1, <1>3, ChainMoved
<1> QED
  BY <1>2, <1>4

\* At the root there is nothing to put back.
LEMMA RootKept ==
    ASSUME scopes' = << >>, log' = {}
    PROVE  /\ Nested(scopes', log', Tracker', mem')
           /\ Chain(scopes', log', Tracker', mem')
           /\ ArmsUndoable'
<1>1. DOMAIN scopes' = {} /\ \E S : scopes' \in Seq(S)
  BY DOMAIN << >> = {}, EmptySeq
<1>2. Nested(scopes', log', Tracker', mem')
  BY <1>1 DEF Nested, Disjoint
<1>3. Chain(scopes', log', Tracker', mem')
  BY <1>1 DEF Chain
<1>4. ArmsUndoable'
  BY <1>1 DEF ArmsUndoable
<1> QED
  BY <1>2, <1>3, <1>4

LEMMA ReadNameStep ==
    ASSUME StructuredInv, Semantics = "shipped", Programs = "aligned",
           NEW c \in Channel, ReadName(c)
    PROVE  StructuredInv' /\ Next
<1>1. /\ TypeOK /\ Coherent /\ Undoable /\ ReadSettled
      /\ Nested(scopes, log, Tracker, mem) /\ Chain(scopes, log, Tracker, mem)
      /\ ArmsUndoable
  BY DEF StructuredInv
<1>2. Read(c) /\ Next
  BY ReadNameQuiet DEF Next
<1>3. TypeOK' /\ Coherent' /\ Undoable'
  BY <1>1, <1>2, CoherentStep, UndoStep
<1>4. /\ scopes' = scopes /\ log' = log
      /\ Running /\ phase' = phase /\ startRegs' = startRegs /\ written' = written
      /\ exact' = exact \cup {c}
  BY DEF ReadName
<1>5. ReadSettled'
  <2>1. dirty' \subseteq dirty /\ \A d \in dirty' : d # c => ~Overlaps(d, c)
    <3>1. CASE ReadTracked(c)
      BY <1>1, <3>1, OverlapFacts DEF ReadTracked, tracker, TypeOK, Coherent
    <3>2. CASE ReadState(c)
      BY <1>1, <3>2, OverlapFacts DEF ReadState, OverlappingIn, TypeOK
    <3> QED
      BY <1>2, <3>1, <3>2 DEF Read
  <2> QED
    BY <1>1, <1>4, <2>1 DEF ReadSettled, Overlaps
<1>6. CASE AtRoot
  <2>1. scopes' = << >> /\ log' = {}
    BY <1>1, <1>4, <1>6 DEF AtRoot, Nested
  <2> QED
    BY <1>2, <1>3, <1>5, <2>1, RootKept DEF StructuredInv
<1>7. CASE ~AtRoot
  <2>1. /\ UNCHANGED <<mem, entries, dirty, boundaryKeys, unrestorableStore>>
        /\ SameValues(restore, restore')
    BY <1>7, ReadNameQuiet
  <2>2. Follows(Tracker, Tracker', log')
    BY <2>1, TrackerFields, FollowsSame
  <2>3. InLoop => LoopFits(Inner, log', Tracker', mem)
    BY <1>1, <1>4, <2>1, LoopOpen, TrackerFields DEF LoopFits
  <2>4. Nested(scopes', log', Tracker', mem') /\ Chain(scopes', log', Tracker', mem')
    BY <1>1, <1>4, <1>7, <2>1, <2>2, <2>3, ScopesKept DEF Nested
  <2>5. ArmsUndoable'
    <3>1. \A s : Agrees(s, Tracker) => Agrees(s, Tracker')
      BY <2>1, TrackerFields DEF Agrees, SameValues
    <3> QED
      BY <1>1, <1>4, <2>1, <3>1
         DEF ArmsUndoable, UndoFor, Alone, AtStart, Overlaps, On, InLoop, AtRoot, Inner
  <2> QED
    BY <1>2, <1>3, <1>4, <1>5, <2>4, <2>5 DEF StructuredInv, Running
<1> QED
  BY <1>6, <1>7

LEMMA WriteNameStep ==
    ASSUME StructuredInv, Semantics = "shipped",
           NEW c \in Channel, NEW v \in ChannelValue(c), WriteName(c, v)
    PROVE  StructuredInv' /\ Next
<1>1. /\ TypeOK /\ Coherent /\ Undoable /\ ReadSettled
      /\ Nested(scopes, log, Tracker, mem) /\ Chain(scopes, log, Tracker, mem)
      /\ ArmsUndoable
  BY DEF StructuredInv
<1>2. Write(c, v) /\ Next
  BY DEF WriteName, Next
<1>3. TypeOK' /\ Coherent' /\ Undoable'
  BY <1>1, <1>2, CoherentStep, UndoStep
<1>4. /\ scopes' = scopes /\ log' = Logged(log \cup {c})
      /\ Running /\ phase' = phase /\ exact' = exact /\ written' = written \cup {c}
  BY DEF WriteName, Write
<1>5. /\ dirty' \subseteq dirty \cup {c}
      /\ \A d \in dirty : ~Overlaps(d, c) => d \in dirty' /\ entries'[d] = entries[d]
  BY <1>1, <1>2, WriteFollows
<1>6. ReadSettled'
  BY <1>1, <1>4, <1>5 DEF ReadSettled, Overlaps
<1>7. CASE AtRoot
  <2>1. scopes' = << >> /\ log' = {}
    BY <1>4, <1>7 DEF AtRoot, Logged
  <2> QED
    BY <1>2, <1>3, <1>6, <2>1, RootKept DEF StructuredInv
<1>8. CASE ~AtRoot
  <2>1. log' = log \cup {c} /\ mem' = mem
    BY <1>4, <1>8, WriteNameQuiet DEF Logged
  <2>2. Follows(Tracker, Tracker', log')
    BY <1>5, <2>1, TrackerFields DEF Follows, Apart
  <2>3. InLoop => c \in Inner.carried /\ log' = log /\ LoopFits(Inner, log', Tracker', mem)
    <3> SUFFICES ASSUME InLoop
                 PROVE  /\ c \in Inner.carried /\ log' = log
                        /\ LoopFits(Inner, log', Tracker', mem)
      OBVIOUS
    <3>1. c \in Inner.carried /\ LoopFits(Inner, log, Tracker, mem)
      BY <1>1, LoopOpen DEF WriteName
    <3>2. log' = log
      BY <2>1, <3>1 DEF LoopFits
    <3>3. \A d \in Inner.top.dirty : d # c => ~Overlaps(d, c)
      BY <3>1 DEF LoopFits, Fits, Disjoint
    <3>4. LoopFits(Inner, log, Tracker', mem)
      BY <1>5, <3>1, <3>3, TrackerFields DEF LoopFits
    <3> QED
      BY <3>1, <3>2, <3>4
  <2>4. Disjoint(log')
    <3>1. CASE InLoop
      BY <1>1, <2>3, <3>1 DEF Nested
    <3>2. CASE ~InLoop
      BY <1>8, <2>1, <3>2 DEF WriteName, InArm, InLoop
    <3> QED
      BY <3>1, <3>2
  <2>5. log \subseteq log' /\ log' \subseteq Channel
    BY <1>1, <2>1 DEF Nested
  <2>6. Nested(scopes', log', Tracker', mem') /\ Chain(scopes', log', Tracker', mem')
    BY <1>4, <1>8, <2>1, <2>2, <2>3, <2>4, <2>5, ScopesKept
  <2>7. ArmsUndoable'
    BY <1>4, <1>8 DEF ArmsUndoable, WriteName, InArm, InLoop, AtRoot, Inner
  <2> QED
    BY <1>2, <1>3, <1>4, <1>6, <2>6, <2>7 DEF StructuredInv, Running
<1> QED
  BY <1>7, <1>8

\* The steps of the tracker that touch no scope.
LEMMA PlainStep ==
    ASSUME StructuredInv, Semantics = "shipped", UNCHANGED <<scopes, log>>,
           Enter \/ Commit \/ (AtRoot /\ BeginInstruction) \/ Complete
    PROVE  StructuredInv'
<1>1. /\ TypeOK /\ Coherent /\ Undoable /\ ReadSettled
      /\ Nested(scopes, log, Tracker, mem) /\ Chain(scopes, log, Tracker, mem)
      /\ phase = "exited" => scopes = << >>
  BY DEF StructuredInv
<1>2. TypeOK' /\ Coherent' /\ Undoable'
  <2>1. Next
    BY DEF Next
  <2> QED
    BY <1>1, <2>1, CoherentStep, UndoStep
<1>3. ReadSettled'
  BY <1>1 DEF ReadSettled, Enter, Commit, BeginInstruction, Complete, FreshTracker,
              tracker, history, Overlaps
<1>4. CASE scopes = << >>
  <2>1. scopes' = << >> /\ log' = {}
    BY <1>1, <1>4 DEF Nested
  <2> QED
    BY <1>2, <1>3, <2>1, RootKept DEF StructuredInv
<1>5. CASE scopes # << >>
  <2>1. /\ UNCHANGED <<mem, entries, dirty, boundaryKeys, restore, reads,
                       unrestorableStore>>
        /\ phase' \in {"committing", "between"}
    BY <1>1, <1>5 DEF Enter, Commit, Complete, AtRoot, tracker
  <2>2. Tracker' = Tracker
    BY <2>1 DEF Tracker
  <2>3. ArmsUndoable'
    BY <2>1 DEF ArmsUndoable
  <2> QED
    BY <1>1, <1>2, <1>3, <2>1, <2>2, <2>3 DEF StructuredInv
<1> QED
  BY <1>4, <1>5

\* However a path ends, it ends outside every scope.
LEMMA EndStep ==
    ASSUME StructuredInv, Semantics = "shipped", EndPath(Fault) \/ EndPath(Publish)
    PROVE  StructuredInv'
<1>1. /\ TypeOK /\ Coherent /\ Undoable
      /\ (Fault \/ Publish) /\ scopes' = << >> /\ log' = {}
  BY DEF StructuredInv, EndPath
<1>2. TypeOK' /\ Coherent' /\ Undoable'
  <2>1. Next
    BY <1>1 DEF Next
  <2> QED
    BY <1>1, <2>1, CoherentStep, UndoStep
<1>3. ReadSettled'
  BY <1>1 DEF ReadSettled, Fault, Publish, FreshTracker
<1> QED
  BY <1>1, <1>2, <1>3, RootKept DEF StructuredInv

LEMMA StutterStep ==
    ASSUME StructuredInv, UNCHANGED structuredVars
    PROVE  StructuredInv'
<1>1. UNCHANGED <<mem, entries, dirty, boundaryKeys, restore, reads,
                  unrestorableStore, phase, startRegs, exact, written, scopes, log>>
  BY DEF structuredVars, vars, tracker, history, structure
<1>2. Tracker' = Tracker
  BY <1>1 DEF Tracker
<1>3. TypeOK' /\ Coherent' /\ Undoable' /\ ReadSettled'
  BY <1>1
     DEF StructuredInv, TypeOK, Coherent, ChannelValue, Undoable, UndoInv, Restored,
         EntriesKnown, BoundaryWhole, WrittenAlone, UnwrittenHeld, ReadSettled,
         ReadKept, Registers, Stored, Overlay, Alone, AtStart, Overlaps, On
<1>4. ArmsUndoable'
  BY <1>1, <1>2 DEF StructuredInv, ArmsUndoable, UndoFor, Alone, AtStart, Overlaps, On,
                    InLoop, AtRoot, Inner
<1> QED
  BY <1>1, <1>2, <1>3, <1>4 DEF StructuredInv

-----------------------------------------------------------------------------
\* Storing what is pending and overlaps W.
LEMMA CommittedFacts ==
    ASSUME NEW t, Fits(t), NEW m \in [Byte -> Value], NEW W,
           NEW n, n = Committed(m, t, W)
    PROVE  /\ n \in [Byte -> Value]
           /\ \A d \in t.dirty : ~Apart(d, W) => \A b \in Extent[d] : n[b] = t.entries[d][b]
           /\ \A b \in Byte : \/ n[b] = m[b]
                              \/ \E d \in t.dirty : ~Apart(d, W) /\ b \in Extent[d]
<1> DEFINE D == {d \in t.dirty : \E c \in W : Overlaps(c, d)}
<1>1. n = Overlay(m, t.entries, D) /\ \A d : d \in D <=> d \in t.dirty /\ ~Apart(d, W)
  <2>1. n = Overlay(m, t.entries, D)
    BY DEF Committed
  <2>2. \A d : ~Apart(d, W) <=> \E c \in W : Overlaps(c, d)
    BY OverlapFacts DEF Apart
  <2> QED
    BY <2>1, <2>2
<1>2. D \subseteq DOMAIN t.entries /\ \A c, d \in D : c # d => ~Overlaps(c, d)
  BY DEF Fits, Disjoint
<1> HIDE DEF D
<1>3. ASSUME NEW d \in D, NEW b \in Extent[d]
      PROVE  b \in Byte /\ n[b] = t.entries[d][b] /\ t.entries[d][b] \in Value
  <2>1. d \in Channel /\ t.entries[d] \in [Extent[d] -> Value]
    BY <1>2 DEF Fits, ChannelValue
  <2>2. b \in Byte
    BY <2>1, OverlapFacts
  <2> QED
    BY <1>1, <1>2, <2>1, <2>2, OverlayAt
<1>4. ASSUME NEW b \in Byte, \A d \in D : b \notin Extent[d]
      PROVE  n[b] = m[b]
  BY <1>1, <1>4, OverlayElsewhere
<1>5. n \in [Byte -> Value]
  <2>1. \A b \in Byte : n[b] \in Value
    BY <1>3, <1>4
  <2>2. n = [b \in Byte |-> n[b]]
    BY <1>1 DEF Overlay
  <2> QED
    BY <2>1, <2>2
<1> QED
  BY <1>1, <1>3, <1>4, <1>5

\* The tracker after a join: the snapshot without the joined channels J.
LEMMA JoinedFields ==
    ASSUME NEW s, Fits(s), NEW Q, NEW J, Q \subseteq J,
           NEW F, F = FlushedToRead(s, Q), NEW u, u = Invalidated(AfterFlush(s, F), J)
    PROVE  /\ Fits(u)
           /\ u.dirty = {d \in s.dirty : Apart(d, J)}
           /\ DOMAIN u.entries = {c \in DOMAIN s.entries : Apart(c, J)}
           /\ \A c \in DOMAIN u.entries : u.entries[c] = s.entries[c]
           /\ DOMAIN u.reads = {c \in DOMAIN s.reads : Apart(c, F) /\ Apart(c, J)}
           /\ \A c \in DOMAIN u.reads : u.reads[c] = s.reads[c]
           /\ Follows(s, u, J)
           /\ J = {} => Agrees(s, u) /\ DOMAIN u.reads = DOMAIN s.reads
<1> DEFINE v == AfterFlush(s, F)
<1>1. F \in SUBSET s.dirty /\ \A d \in F : ~Apart(d, J)
  BY OverlapFacts DEF FlushedToRead, Apart
<1>2. /\ Fits(v)
      /\ v.entries = s.entries
      /\ v.dirty = s.dirty \ F
      /\ DOMAIN v.reads = {c \in DOMAIN s.reads : Apart(c, F)}
      /\ \A c \in DOMAIN v.reads : v.reads[c] = s.reads[c]
      /\ F = {} => /\ v.boundaryKeys = s.boundaryKeys
                   /\ DOMAIN v.restore = DOMAIN s.restore
                   /\ \A b \in DOMAIN s.restore : v.restore[b] = s.restore[b]
                   /\ v.unrestorable = s.unrestorable
  BY <1>1, AfterFlushFields
<1> HIDE DEF v
<1>3. /\ Fits(u)
      /\ DOMAIN u.entries = {c \in DOMAIN v.entries : Apart(c, J)}
      /\ \A c \in DOMAIN u.entries : u.entries[c] = v.entries[c]
      /\ u.dirty = {c \in v.dirty : Apart(c, J)}
      /\ DOMAIN u.reads = {c \in DOMAIN v.reads : Apart(c, J)}
      /\ \A c \in DOMAIN u.reads : u.reads[c] = v.reads[c]
      /\ u.boundaryKeys = v.boundaryKeys /\ u.restore = v.restore
      /\ u.unrestorable = v.unrestorable
  BY <1>2, InvalidatedFields DEF v
<1>4. u.dirty = {d \in s.dirty : Apart(d, J)}
  BY <1>1, <1>2, <1>3
<1>5. /\ DOMAIN u.entries = {c \in DOMAIN s.entries : Apart(c, J)}
      /\ \A c \in DOMAIN u.entries : u.entries[c] = s.entries[c]
  BY <1>2, <1>3
<1>6. Follows(s, u, J)
  <2>1. \A d \in s.dirty : d \in DOMAIN s.entries
    BY DEF Fits
  <2> QED
    BY <1>4, <1>5, <2>1 DEF Follows
<1>7. ASSUME J = {}
      PROVE  Agrees(s, u) /\ DOMAIN u.reads = DOMAIN s.reads
  <2>1. F = {} /\ \A c : Apart(c, J)
    BY <1>1, <1>7 DEF Apart
  <2>2. \A c : Apart(c, F)
    BY <2>1 DEF Apart
  <2> QED
    BY <1>2, <1>3, <1>4, <1>5, <2>1, <2>2 DEF Agrees, SameValues
<1> QED
  BY <1>2, <1>3, <1>4, <1>5, <1>6, <1>7

\* What the snapshot s knows of memory survives the stores of the join: those
\* of the arm's own names L from t, then the missing ones O from p.
LEMMA JoinHeld ==
    ASSUME NEW s, Fits(s), NEW t, Fits(t), NEW m \in [Byte -> Value],
           NEW L, NEW O, NEW J, L \subseteq J, O \subseteq J,
           Follows(s, t, L), Held(s, m, L),
           NEW p, Fits(p), p.dirty \subseteq s.dirty,
           NEW n, n = Committed(Committed(m, t, L), p, O)
    PROVE  /\ n \in [Byte -> Value]
           /\ Held(s, n, J)
           /\ \A b \in Byte : \/ n[b] = m[b]
                              \/ \E d \in t.dirty : ~Apart(d, J) /\ b \in Extent[d]
                              \/ \E d \in s.dirty : ~Apart(d, J) /\ b \in Extent[d]
<1> DEFINE k == Committed(m, t, L)
<1>1. /\ k \in [Byte -> Value]
      /\ \A b \in Byte : \/ k[b] = m[b]
                         \/ \E d \in t.dirty : ~Apart(d, L) /\ b \in Extent[d]
  BY CommittedFacts
<1> HIDE DEF k
<1>2. n = Committed(k, p, O)
  BY DEF k
<1>3. /\ n \in [Byte -> Value]
      /\ \A b \in Byte : \/ n[b] = k[b]
                         \/ \E d \in p.dirty : ~Apart(d, O) /\ b \in Extent[d]
  BY <1>1, <1>2, CommittedFacts
<1>4. \A d : (~Apart(d, L) \/ ~Apart(d, O)) => ~Apart(d, J)
  BY DEF Apart
<1>5. ASSUME NEW b \in Byte
      PROVE  \/ n[b] = m[b]
             \/ \E d \in t.dirty : ~Apart(d, J) /\ b \in Extent[d]
             \/ \E d \in s.dirty : ~Apart(d, J) /\ b \in Extent[d]
  BY <1>1, <1>3, <1>4
<1>6. \A d \in t.dirty : d \in s.dirty \/ d \in J
  BY DEF Follows
<1>7. Held(s, n, J)
  BY <1>5, <1>6, HeldMoves
<1> QED
  BY <1>3, <1>5, <1>7

\* No pending store of s is both the arm's (L) and a missing one (O), and p has
\* every missing one.
Divides(s, p, L, O, J) ==
    /\ \A d \in s.dirty : Apart(d, L) \/ Apart(d, O)
    /\ \A d \in s.dirty : Apart(d, J) \/ ~Apart(d, L) \/ (d \in p.dirty /\ ~Apart(d, O))

\* u is s without the channels of J.
Forgets(s, u, J) ==
    /\ \A d : d \in u.dirty <=> d \in s.dirty /\ Apart(d, J)
    /\ \A c \in DOMAIN u.entries : u.entries[c] = s.entries[c]

\* The join loses nothing: what the tracker forgets, memory holds.
LEMMA JoinRegisters ==
    ASSUME NEW s, Fits(s), NEW t, Fits(t), NEW m \in [Byte -> Value],
           NEW L, NEW O, NEW J, L \subseteq J, O \subseteq J, Follows(s, t, L),
           NEW p, Fits(p), p.entries = s.entries, p.dirty \subseteq s.dirty,
           Divides(s, p, L, O, J), NEW u, Fits(u), Forgets(s, u, J)
    PROVE  Overlay(Committed(Committed(m, t, L), p, O), u.entries, u.dirty)
             = Overlay(m, t.entries, t.dirty)
<1> DEFINE k == Committed(m, t, L)
           n == Committed(k, p, O)
           A == Overlay(n, u.entries, u.dirty)
           B == Overlay(m, t.entries, t.dirty)
<1>0. /\ \A d \in s.dirty : Apart(d, L) \/ Apart(d, O)
      /\ \A d \in s.dirty : Apart(d, J) \/ ~Apart(d, L) \/ (d \in p.dirty /\ ~Apart(d, O))
      /\ \A d : d \in u.dirty <=> d \in s.dirty /\ Apart(d, J)
      /\ \A c \in DOMAIN u.entries : u.entries[c] = s.entries[c]
  BY DEF Divides, Forgets
<1>1. /\ k \in [Byte -> Value]
      /\ \A d \in t.dirty : ~Apart(d, L) => \A b \in Extent[d] : k[b] = t.entries[d][b]
      /\ \A b \in Byte : \/ k[b] = m[b]
                         \/ \E d \in t.dirty : ~Apart(d, L) /\ b \in Extent[d]
  BY CommittedFacts
<1>2. n = Committed(k, p, O)
  OBVIOUS
<1> HIDE DEF k, n
<1>3. /\ \A d \in p.dirty : ~Apart(d, O) => \A b \in Extent[d] : n[b] = p.entries[d][b]
      /\ \A b \in Byte : \/ n[b] = k[b]
                         \/ \E d \in p.dirty : ~Apart(d, O) /\ b \in Extent[d]
  BY <1>1, <1>2, CommittedFacts
<1>4. /\ \A c, d \in t.dirty : c # d => ~Overlaps(c, d)
      /\ \A c, d \in u.dirty : c # d => ~Overlaps(c, d)
      /\ \A c, d \in s.dirty : c # d => ~Overlaps(c, d)
  BY DEF Fits, Disjoint
<1>5. /\ \A d \in t.dirty, b \in Byte : b \in Extent[d] => B[b] = t.entries[d][b]
      /\ \A b \in Byte : (\A d \in t.dirty : b \notin Extent[d]) => B[b] = m[b]
  BY <1>4, OverlayAt, OverlayElsewhere
<1>6. /\ \A d \in u.dirty, b \in Byte : b \in Extent[d] => A[b] = u.entries[d][b]
      /\ \A b \in Byte : (\A d \in u.dirty : b \notin Extent[d]) => A[b] = n[b]
  BY <1>4, OverlayAt, OverlayElsewhere
<1>7. /\ \A d \in t.dirty : d \in s.dirty \/ d \in L
      /\ \A d \in s.dirty : Apart(d, L) => d \in t.dirty /\ t.entries[d] = s.entries[d]
  BY DEF Follows
<1>8. \A d : (~Apart(d, L) \/ ~Apart(d, O)) => ~Apart(d, J)
  BY DEF Apart
<1>9. A = [b \in Byte |-> A[b]] /\ B = [b \in Byte |-> B[b]]
  BY DEF Overlay
<1>10. /\ \A d \in t.dirty : d \in Channel
       /\ \A d \in u.dirty : u.entries[d] = s.entries[d]
  BY <1>0 DEF Fits
<1> HIDE DEF A, B
\* A missing store overwrites none of the arm's own.
<1>11. ASSUME NEW e \in p.dirty, ~Apart(e, O)
       PROVE  e \in t.dirty /\ Apart(e, L) /\ p.entries[e] = t.entries[e]
  BY <1>0, <1>7, <1>11
<1>12. ASSUME NEW b \in Byte
       PROVE  A[b] = B[b]
  <2>1. ASSUME NEW d \in u.dirty, b \in Extent[d]
        PROVE  A[b] = B[b]
    <3>1. d \in s.dirty /\ Apart(d, L)
      BY <1>0, <1>8
    <3> QED
      BY <1>5, <1>6, <1>7, <1>10, <2>1, <3>1
  <2>2. ASSUME NEW d \in t.dirty, b \in Extent[d], \A e \in u.dirty : b \notin Extent[e]
        PROVE  A[b] = B[b]
    <3>1. A[b] = n[b] /\ B[b] = t.entries[d][b]
      BY <1>5, <1>6, <2>2
    <3>2. \A e \in t.dirty : b \in Extent[e] => e = d
      BY <1>4, <2>2, OverlapFacts
    <3>3. CASE ~Apart(d, L)
      <4>1. k[b] = t.entries[d][b]
        BY <1>1, <2>2, <3>3
      <4>2. \A e \in p.dirty : ~Apart(e, O) => b \notin Extent[e]
        BY <1>11, <3>2, <3>3
      <4> QED
        BY <1>3, <3>1, <4>1, <4>2
    <3>4. CASE Apart(d, L)
      <4>1. d \in s.dirty
        BY <1>7, <1>10, <3>4, OverlapFacts DEF Apart
      <4>2. ~Apart(d, J)
        BY <1>0, <2>2, <4>1
      <4>3. d \in p.dirty /\ ~Apart(d, O)
        BY <1>0, <3>4, <4>1, <4>2
      <4> QED
        BY <1>3, <1>11, <2>2, <3>1, <4>3
    <3> QED
      BY <3>3, <3>4
  <2>3. ASSUME \A d \in t.dirty : b \notin Extent[d], \A e \in u.dirty : b \notin Extent[e]
        PROVE  A[b] = B[b]
    <3>1. A[b] = n[b] /\ B[b] = m[b]
      BY <1>5, <1>6, <2>3
    <3>2. k[b] = m[b]
      BY <1>1, <2>3
    <3>3. n[b] = k[b]
      BY <1>3, <1>11, <2>3
    <3> QED
      BY <3>1, <3>2, <3>3
  <2> QED
    BY <2>1, <2>2, <2>3
<1>13. A = B
  BY <1>9, <1>12
<1> QED
  BY <1>13 DEF A, B, k, n

\* An instruction that can still raise is back where the arm found it.
LEMMA UndoAgain ==
    ASSUME UndoInv, NEW X, NEW R, UndoFor(X, R),
           UNCHANGED <<mem, startRegs, written, dirty, boundaryKeys, unrestorableStore>>,
           SameValues(entries, entries'), SameValues(restore, restore'),
           exact' = X, DOMAIN reads' = R, Registers' = Registers
    PROVE  UndoInv'
<1>1. \A c : Alone(c)' <=> Alone(c)
  BY DEF Alone, Overlaps
<1>2. Restored' = startRegs'
  BY DEF UndoInv, Restored, SameValues
<1>3. EntriesKnown' /\ BoundaryWhole'
  BY DEF UndoInv, EntriesKnown, BoundaryWhole, SameValues
<1>4. WrittenAlone'
  BY <1>1 DEF UndoInv, UndoFor, WrittenAlone
<1>5. UnwrittenHeld'
  BY DEF UndoInv, UnwrittenHeld
<1>6. ReadSettled'
  BY DEF UndoFor, ReadSettled, Overlaps
<1>7. ReadKept'
  BY <1>1 DEF UndoFor, ReadKept, AtStart, On
<1> QED
  BY <1>2, <1>3, <1>4, <1>5, <1>6, <1>7 DEF UndoInv

LEMMA LeaveArmStep ==
    ASSUME StructuredInv, NEW continues \in BOOLEAN, NEW W \in SUBSET Channel,
           LeaveArm(continues, W)
    PROVE  StructuredInv' /\ Registers' = Registers
<1> DEFINE s == Inner.saved
           J == log \cup W
           O == IF continues THEN Missing(log, W) ELSE {}
           X == IF continues THEN Missing(W, log) ELSE {}
           p == IF Inner.kind = "then" THEN s
                ELSE AfterFlush(s, FlushedToRead(s, X))
           F == FlushedToRead(s, O \cup X)
           u == Invalidated(AfterFlush(s, F), J)
<1>1. /\ TypeOK /\ Coherent /\ Undoable /\ ReadSettled
      /\ Nested(scopes, log, Tracker, mem) /\ Chain(scopes, log, Tracker, mem)
      /\ ArmsUndoable
  BY DEF StructuredInv
<1>2. /\ InArm /\ Running /\ Disjoint(OuterLog(J))
      /\ J \subseteq Inner.settled \/ (continues /\ {} \in {log, W})
      /\ W # {} => continues /\ phase = "committing"
      /\ mem' = Committed(Committed(mem, Tracker, log), p, O)
      /\ SetTracker(u)
      /\ written' = Inner.written \cup J
      /\ log' = OuterLog(J)
      /\ exact' = Inner.exact
      /\ scopes' = Tail(scopes)
      /\ UNCHANGED <<phase, result, startRegs>>
  BY DEF LeaveArm
<1>3. /\ ~InLoop /\ scopes # << >> /\ 1 \in DOMAIN scopes /\ Inner = scopes[1]
      /\ DOMAIN scopes \subseteq Nat \ {0}
  BY <1>1, <1>2 DEF InArm, InLoop, AtRoot, Inner, Nested
<1>4. \A i \in DOMAIN scopes : IsArm(scopes[i]) /\ ArmFits(scopes[i])
  BY <1>1, <1>3, ArmsOpen
<1>5. Fits(s) /\ ArmFits(Inner)
  BY <1>3, <1>4 DEF ArmFits
<1>6. Fits(Tracker) /\ Tracker.entries = entries /\ Tracker.dirty = dirty
  BY <1>1, TrackerFits
<1>7. Follows(s, Tracker, log) /\ Held(s, mem, log)
  <2>1. Since(scopes, log, 1) = log
    BY <1>3 DEF Since
  <2> QED
    BY <1>1, <1>3, <1>4, <2>1 DEF Chain
<1>8. /\ log \subseteq J /\ O \subseteq J /\ X \subseteq log /\ O \cup X \subseteq J
      /\ O \cap log = {} /\ W \subseteq log \cup O
  BY <1>2 DEF Missing
<1>9. /\ Fits(p) /\ p.entries = s.entries /\ p.dirty \subseteq s.dirty
      /\ \A d \in s.dirty : d \notin p.dirty => ~Apart(d, log)
  <2>1. CASE Inner.kind = "then"
    BY <1>5, <2>1
  <2>2. CASE Inner.kind # "then"
    <3> DEFINE G == FlushedToRead(s, X)
    <3>1. G \in SUBSET s.dirty /\ \A d \in G : ~Apart(d, log)
      BY <1>8, OverlapFacts DEF FlushedToRead, Apart
    <3>2. p = AfterFlush(s, G)
      BY <2>2
    <3> HIDE DEF G, p, s
    <3>3. Fits(p) /\ p.entries = s.entries /\ p.dirty = s.dirty \ G
      BY <1>5, <3>1, <3>2, AfterFlushFields
    <3> QED
      BY <3>1, <3>3
  <2> QED
    BY <2>1, <2>2
<1>10. F = FlushedToRead(s, O \cup X) /\ u = Invalidated(AfterFlush(s, F), J)
  OBVIOUS
<1>11. log \subseteq Channel /\ mem \in [Byte -> Value]
  BY <1>1 DEF Nested, TypeOK
\* No pending store is both this arm's and its sibling's to make.
<1>12. \A d \in s.dirty : Apart(d, log) \/ Apart(d, O)
  <2>1. CASE J \subseteq Inner.settled
    <3>1. \A d \in s.dirty, c \in J : d # c => ~Overlaps(d, c)
      BY <1>5, <2>1 DEF ArmFits
    <3> QED
      BY <1>8, <3>1 DEF Apart
  <2>2. CASE {} \in {log, W}
    BY <2>2 DEF Apart, Missing
  <2> QED
    BY <1>2, <2>1, <2>2
\* A cached read the join keeps overlaps no store of it.
<1>13. ASSUME NEW c \in Channel, Apart(c, J), Apart(c, F), NEW d \in s.dirty
       PROVE  Apart(d, J) \/ ~Overlaps(c, d)
  <2>1. CASE J \subseteq Inner.settled
    BY <1>5, <1>13, <2>1 DEF ArmFits, Apart
  <2>2. CASE continues /\ {} \in {log, W}
    <3>1. O \cup X = J
      BY <2>2 DEF Missing
    <3>2. \A j \in J : j # d /\ Overlaps(j, d) => d \in F
      BY <3>1 DEF FlushedToRead
    <3> QED
      BY <1>13, <3>2, OverlapFacts DEF Apart
  <2> QED
    BY <1>2, <2>1, <2>2
<1> HIDE DEF s, J, O, X, p, F, u
<1>14. /\ Fits(u)
       /\ u.dirty = {d \in s.dirty : Apart(d, J)}
       /\ DOMAIN u.entries = {c \in DOMAIN s.entries : Apart(c, J)}
       /\ \A c \in DOMAIN u.entries : u.entries[c] = s.entries[c]
       /\ DOMAIN u.reads = {c \in DOMAIN s.reads : Apart(c, F) /\ Apart(c, J)}
       /\ \A c \in DOMAIN u.reads : u.reads[c] = s.reads[c]
       /\ Follows(s, u, J)
       /\ J = {} => Agrees(s, u) /\ DOMAIN u.reads = DOMAIN s.reads
  BY <1>5, <1>8, <1>10, JoinedFields
<1>15. /\ mem' \in [Byte -> Value]
       /\ Held(s, mem', J)
       /\ \A b \in Byte : \/ mem'[b] = mem[b]
                          \/ \E d \in dirty : ~Apart(d, J) /\ b \in Extent[d]
                          \/ \E d \in s.dirty : ~Apart(d, J) /\ b \in Extent[d]
  <2>1. mem' = Committed(Committed(mem, Tracker, log), p, O)
    BY <1>2
  <2>2. /\ mem' \in [Byte -> Value]
        /\ Held(s, mem', J)
        /\ \A b \in Byte : \/ mem'[b] = mem[b]
                           \/ \E d \in Tracker.dirty : ~Apart(d, J) /\ b \in Extent[d]
                           \/ \E d \in s.dirty : ~Apart(d, J) /\ b \in Extent[d]
    BY <1>5, <1>6, <1>7, <1>8, <1>9, <1>11, <2>1, JoinHeld
  <2> QED
    BY <1>6, <2>2
<1>16. /\ entries' = u.entries /\ dirty' = u.dirty /\ boundaryKeys' = u.boundaryKeys
       /\ restore' = u.restore /\ reads' = u.reads /\ unrestorableStore' = u.unrestorable
  BY <1>2 DEF SetTracker
<1>17. Registers' = Registers
  <2>1. Divides(s, p, log, O, J)
    BY <1>8, <1>9, <1>12 DEF Divides, Apart, J
  <2>2. Overlay(mem', u.entries, u.dirty) = Overlay(mem, Tracker.entries, Tracker.dirty)
    <3>1. mem' = Committed(Committed(mem, Tracker, log), p, O)
      BY <1>2
    <3>2. Fits(u) /\ Forgets(s, u, J)
      BY <1>14 DEF Forgets
    <3> QED
      BY <1>5, <1>6, <1>7, <1>8, <1>9, <1>11, <2>1, <3>1, <3>2, JoinRegisters
  <2>3. Registers' = Overlay(mem', entries', dirty') /\ Registers = Overlay(mem, entries, dirty)
    BY DEF Registers, Stored
  <2> QED
    BY <1>6, <1>16, <2>2, <2>3
<1>18. HeldIn(u, mem')
  <2>1. ASSUME NEW c \in DOMAIN u.entries \ u.dirty
        PROVE  u.entries[c] = On(mem', c)
    BY <1>14, <1>15 DEF Held
  <2>2. ASSUME NEW c \in DOMAIN u.reads
        PROVE  u.reads[c] = On(mem', c)
    <3>1. c \in DOMAIN s.reads /\ Apart(c, F) /\ Apart(c, J) /\ c \in Channel
      BY <1>14 DEF Fits
    <3>2. \A d \in s.dirty : Apart(d, J) \/ ~Overlaps(c, d)
      BY <1>13, <3>1
    <3> QED
      BY <1>14, <1>15, <3>1, <3>2 DEF Held
  <2> QED
    BY <2>1, <2>2 DEF HeldIn
<1>19. TypeOK' /\ Coherent'
  <2>1. /\ exact' \subseteq Channel /\ written' \subseteq Channel
        /\ startRegs' \in [Byte -> Value]
        /\ phase' \in {"exited", "between", "checking", "committing"}
    BY <1>1, <1>2, <1>5, <1>11 DEF ArmFits, TypeOK, J
  <2> QED
    BY <1>2, <1>14, <1>15, <1>18, <2>1, SetTrackerFits
<1>20. ReadSettled'
  BY <1>2, <1>5, <1>14, <1>16 DEF ReadSettled, ArmFits, Overlaps, s
<1>21. PICK S : scopes \in Seq(S)
  BY <1>1 DEF Nested
<1>22. /\ scopes' \in Seq(S)
       /\ \A i \in DOMAIN scopes' : scopes'[i] = scopes[i + 1] /\ i + 1 \in DOMAIN scopes
  BY <1>2, <1>3, <1>21, Popped
<1>23. Nested(scopes', log', Tracker', mem')
  <2>1. log' \subseteq Channel /\ (scopes' = << >> => log' = {})
    BY <1>2, <1>5, <1>11 DEF OuterLog, ArmFits, J
  <2>2. \A i \in DOMAIN scopes' : ArmFits(scopes'[i])
    BY <1>4, <1>22
  <2>3. Disjoint(log') /\ \E T : scopes' \in Seq(T)
    BY <1>2, <1>22
  <2> QED
    BY <2>1, <2>2, <2>3, NestedArms
<1>24. Chain(scopes', log', Tracker', mem')
  <2>1. CASE scopes' = << >>
    BY <2>1, DOMAIN << >> = {} DEF Chain
  <2>2. CASE scopes' # << >>
    <3>1. log' = scopes[1].log \cup J
      BY <1>2, <1>3, <2>2 DEF OuterLog
    <3>2. Follows(scopes[1].saved, Tracker', J)
      BY <1>3, <1>14, <1>16, TrackerFields DEF Follows, s
    <3>3. \A i \in DOMAIN scopes : IsArm(scopes[i]) /\ Fits(scopes[i].saved)
      BY <1>4 DEF ArmFits
    <3>4. \A b \in Byte : \/ mem'[b] = mem[b]
                          \/ \E d \in Tracker.dirty : ~Apart(d, J) /\ b \in Extent[d]
                          \/ \E d \in scopes[1].saved.dirty : ~Apart(d, J) /\ b \in Extent[d]
      BY <1>3, <1>6, <1>15 DEF s
    <3>5. scopes' = Tail(scopes) /\ Chain(scopes, log, Tracker, mem)
      BY <1>1, <1>2
    <3>6. scopes[1].log \subseteq log' /\ J \subseteq log'
      BY <3>1
    <3> QED
      BY <1>3, <1>8, <1>11, <1>21, <3>2, <3>3, <3>4, <3>5, <3>6, ChainPopped
  <2> QED
    BY <2>1, <2>2
<1>25. ASSUME phase = "checking"
       PROVE  /\ UNCHANGED <<mem, written, dirty, boundaryKeys, unrestorableStore>>
              /\ SameValues(entries, entries') /\ SameValues(restore, restore')
              /\ DOMAIN reads' = DOMAIN s.reads
              /\ log' = {}
  <2>1. J = {} /\ Agrees(s, Tracker) /\ Inner.written = written /\ Inner.log = {}
    BY <1>1, <1>2, <1>3, <1>25 DEF ArmsUndoable, s, J
  <2>2. mem' = mem
    BY <1>11, <1>15, <2>1 DEF Apart
  <2>3. Agrees(s, u) /\ DOMAIN u.reads = DOMAIN s.reads
    BY <1>14, <2>1
  <2>4. /\ UNCHANGED <<dirty, boundaryKeys, unrestorableStore>>
        /\ SameValues(entries, entries') /\ SameValues(restore, restore')
    BY <1>16, <2>1, <2>3, TrackerFields DEF Agrees, SameValues
  <2> QED
    BY <1>2, <1>16, <2>1, <2>2, <2>3, <2>4 DEF OuterLog
<1>26. Undoable'
  <2> SUFFICES ASSUME phase = "checking"
               PROVE  UndoInv'
    BY <1>2 DEF Undoable
  <2>1. UndoFor(Inner.exact, DOMAIN s.reads) /\ UndoInv
    BY <1>1, <1>3 DEF ArmsUndoable, Undoable, s
  <2> QED
    BY <1>2, <1>17, <1>25, <2>1, UndoAgain
<1>27. ArmsUndoable'
  <2> SUFFICES ASSUME phase = "checking", NEW i \in DOMAIN scopes'
               PROVE  /\ Agrees(scopes'[i].saved, Tracker')
                      /\ scopes'[i].log = {} /\ scopes'[i].written = written
                      /\ UndoFor(scopes'[i].exact, DOMAIN scopes'[i].saved.reads)
    BY <1>2, <1>25 DEF ArmsUndoable, UndoFor, Alone, AtStart, Overlaps, On
  <2>1. \A x : Agrees(x, Tracker) => Agrees(x, Tracker')
    BY <1>25, TrackerFields DEF Agrees, SameValues
  <2> QED
    BY <1>1, <1>3, <1>22, <2>1 DEF ArmsUndoable
<1>28. phase' # "exited"
  BY <1>2 DEF Running
<1> QED
  BY <1>17, <1>19, <1>20, <1>23, <1>24, <1>26, <1>27, <1>28 DEF StructuredInv

-----------------------------------------------------------------------------
\* The top of an iteration that starts from the registers r the tracker t and
\* memory hold: the boundary restores them.
LEMMA IterationStep ==
    ASSUME NEW t, Fits(t), HeldIn(t, mem'), mem' \in [Byte -> Value],
           NEW r, r = Overlay(mem', t.entries, t.dirty), r \in [Byte -> Value],
           IterationTop(t, r)
    PROVE  /\ TypeOK' /\ Coherent' /\ UndoInv' /\ ReadSettled'
           /\ Registers' = r /\ startRegs' = r
           /\ phase' = "checking" /\ result' = NoResult
           /\ entries' = t.entries /\ dirty' = t.dirty /\ reads' = t.reads
<1> DEFINE u == BoundaryHere(t)
<1>1. /\ Fits(u)
      /\ u.entries = t.entries /\ u.dirty = t.dirty /\ u.reads = t.reads
      /\ u.boundaryKeys = DOMAIN t.entries
      /\ DOMAIN u.restore = UNION {Extent[c] : c \in DOMAIN t.entries}
      /\ \A c \in DOMAIN t.entries : \A b \in Extent[c] : u.restore[b] = t.entries[c][b]
      /\ u.unrestorable = FALSE
  BY BoundaryHereFields
<1>2. /\ SetTracker(u) /\ startRegs' = r /\ exact' = {} /\ written' = {}
      /\ phase' = "checking" /\ result' = NoResult
  BY DEF IterationTop
<1> HIDE DEF u
<1>3. /\ entries' = t.entries /\ dirty' = t.dirty /\ reads' = t.reads
      /\ boundaryKeys' = DOMAIN t.entries /\ restore' = u.restore
      /\ unrestorableStore' = FALSE
  BY <1>1, <1>2 DEF SetTracker
<1>4. TypeOK' /\ Coherent'
  <2>1. HeldIn(u, mem')
    BY <1>1 DEF HeldIn
  <2> QED
    BY <1>1, <1>2, <2>1, SetTrackerFits
<1>5. Registers' = r
  BY <1>3 DEF Registers, Stored
<1>6. Restored' = startRegs'
  <2>1. ASSUME NEW b \in Byte, NEW c \in DOMAIN t.entries, b \in Extent[c]
        PROVE  r[b] = t.entries[c][b]
    <3>1. \A x, y \in t.dirty : x # y => ~Overlaps(x, y)
      BY DEF Fits, Disjoint
    <3>2. CASE c \in t.dirty
      BY <2>1, <3>1, <3>2, OverlayAt
    <3>3. CASE c \notin t.dirty
      <4>1. \A d \in t.dirty : b \notin Extent[d]
        BY <2>1, <3>3, OverlapFacts DEF Fits, Disjoint
      <4>2. r[b] = mem'[b]
        BY <4>1, OverlayElsewhere
      <4>3. t.entries[c] = On(mem', c)
        BY <3>3 DEF HeldIn
      <4> QED
        BY <2>1, <4>2, <4>3 DEF On
    <3> QED
      BY <3>2, <3>3
  <2>2. ASSUME NEW b \in Byte
        PROVE  Restored'[b] = r[b]
    <3>1. CASE \E c \in DOMAIN t.entries : b \in Extent[c]
      <4>1. PICK c \in DOMAIN t.entries : b \in Extent[c]
        BY <3>1
      <4>2. b \in DOMAIN u.restore /\ u.restore[b] = t.entries[c][b]
        BY <1>1, <4>1
      <4> QED
        BY <1>3, <2>1, <4>1, <4>2 DEF Restored
    <3>2. CASE \A c \in DOMAIN t.entries : b \notin Extent[c]
      <4>1. b \notin DOMAIN u.restore
        BY <1>1, <3>2
      <4>2. \A d \in t.dirty : b \notin Extent[d]
        BY <3>2 DEF Fits
      <4>3. r[b] = mem'[b]
        BY <4>2, OverlayElsewhere
      <4> QED
        BY <1>3, <4>1, <4>3 DEF Restored
    <3> QED
      BY <3>1, <3>2
  <2>3. Restored' = [b \in Byte |-> Restored'[b]]
    BY DEF Restored
  <2> QED
    BY <1>2, <2>2, <2>3
<1>7. EntriesKnown' /\ BoundaryWhole'
  <2>1. \A c \in DOMAIN t.entries : Extent[c] \subseteq DOMAIN u.restore
    BY <1>1
  <2> QED
    BY <1>3, <2>1 DEF EntriesKnown, BoundaryWhole
<1>8. WrittenAlone' /\ UnwrittenHeld' /\ ReadSettled' /\ ReadKept'
  BY <1>2, <1>5 DEF WrittenAlone, UnwrittenHeld, ReadSettled, ReadKept
<1>9. UndoInv'
  BY <1>3, <1>6, <1>7, <1>8 DEF UndoInv
<1> QED
  BY <1>2, <1>3, <1>4, <1>5, <1>8, <1>9

\* The registers where the tracker holds them, and elsewhere.
LEMMA RegisterBytes ==
    ASSUME TypeOK, Coherent
    PROVE  /\ Registers \in [Byte -> Value]
           /\ \A d \in dirty : \A b \in Extent[d] : Registers[b] = entries[d][b]
           /\ \A b \in Byte : (\A d \in dirty : b \notin Extent[d]) => Registers[b] = mem[b]
<1>1. dirty \in SUBSET DOMAIN entries
  BY DEF TypeOK
<1>2. Registers \in [Byte -> Value]
  BY <1>1, StoredType DEF Registers
<1>3. \A d \in dirty : \A b \in Extent[d] : Registers[b] = entries[d][b]
  BY <1>1, StoredAt DEF Registers
<1>4. \A b \in Byte : (\A d \in dirty : b \notin Extent[d]) => Registers[b] = mem[b]
  BY StoredElsewhere DEF Registers
<1> QED
  BY <1>2, <1>3, <1>4

\* Two register files that agree where something is pending, and elsewhere.
LEMMA OverlayIs ==
    ASSUME NEW t, Fits(t), NEW m, NEW r \in [Byte -> Value],
           \A d \in t.dirty : \A b \in Extent[d] : t.entries[d][b] = r[b],
           \A b \in Byte : (\A d \in t.dirty : b \notin Extent[d]) => m[b] = r[b]
    PROVE  Overlay(m, t.entries, t.dirty) = r
<1>1. \A x, y \in t.dirty : x # y => ~Overlaps(x, y)
  BY DEF Fits, Disjoint
<1>2. ASSUME NEW b \in Byte
      PROVE  Overlay(m, t.entries, t.dirty)[b] = r[b]
  <2>1. CASE \E d \in t.dirty : b \in Extent[d]
    BY <1>1, <2>1, OverlayAt
  <2>2. CASE \A d \in t.dirty : b \notin Extent[d]
    BY <2>2, OverlayElsewhere
  <2> QED
    BY <2>1, <2>2
<1> QED
  BY <1>2 DEF Overlay

\* What a loop carries, cut out of the registers.
LEMMA CarriedValues ==
    ASSUME TypeOK, Coherent, NEW W \in SUBSET Channel,
           NEW values, values = [c \in W |-> On(Registers, c)]
    PROVE  /\ DOMAIN values = W
           /\ \A c \in W : values[c] \in ChannelValue(c)
           /\ \A c \in W : \A b \in Extent[c] : values[c][b] = Registers[b]
BY RegisterBytes, OverlapFacts DEF On, ChannelValue

LEMMA ContinueLoopStep ==
    ASSUME StructuredInv, ContinueLoop
    PROVE  /\ StructuredInv' /\ Registers' = Registers /\ startRegs' = Registers
           /\ phase' = "checking" /\ result' = NoResult
<1> DEFINE W == Inner.carried
           top == Inner.top
           values == [c \in W |-> On(Registers, c)]
           t == Carrying(top, values)
           x == [Inner EXCEPT !.iteration = @ + 1]
<1>1. /\ TypeOK /\ Coherent
      /\ Nested(scopes, log, Tracker, mem) /\ Chain(scopes, log, Tracker, mem)
  BY DEF StructuredInv
<1>2. /\ InLoop /\ IterationTop(t, Registers)
      /\ scopes' = << x >> \o Tail(scopes) /\ mem' = mem /\ log' = log
  BY DEF ContinueLoop
<1>3. /\ scopes # << >> /\ 1 \in DOMAIN scopes /\ 2 \in DOMAIN scopes
      /\ Inner = scopes[1] /\ ~IsArm(scopes[1])
      /\ LoopFits(Inner, log, Tracker, mem)
      /\ \A i \in DOMAIN scopes \ {1} : IsArm(scopes[i]) /\ ArmFits(scopes[i])
  BY <1>1, <1>2, LoopOpen
<1>4. /\ W \in SUBSET Channel /\ Disjoint(W) /\ W \subseteq log
      /\ Fits(top) /\ HeldIn(top, mem) /\ W \subseteq top.dirty
      /\ dirty \subseteq top.dirty
      /\ \A d \in top.dirty \ W : d \in dirty /\ entries[d] = top.entries[d]
  BY <1>3, TrackerFields DEF LoopFits
<1>5. /\ DOMAIN values = W
      /\ \A c \in W : values[c] \in ChannelValue(c)
      /\ \A c \in W : \A b \in Extent[c] : values[c][b] = Registers[b]
  BY <1>1, <1>4, CarriedValues
<1>6. /\ x.kind = "loop" /\ x.carried = W /\ x.top = top /\ x.entry = Inner.entry
      /\ DOMAIN x = DOMAIN Inner
  BY <1>3 DEF LoopFits
<1>7. t = Carrying(top, values)
  OBVIOUS
<1> HIDE DEF values, t, W, top, x
<1>8. /\ Fits(t)
      /\ DOMAIN t.entries = {c \in DOMAIN top.entries : Apart(c, W)} \cup W
      /\ \A c \in W : t.entries[c] = values[c]
      /\ \A c \in DOMAIN t.entries \ W : t.entries[c] = top.entries[c]
      /\ t.dirty = {c \in top.dirty : Apart(c, W)} \cup W
      /\ t.reads = top.reads
  BY <1>4, <1>5, <1>7, CarryingFields
<1>9. \A d \in top.dirty \ W : Apart(d, W)
  BY <1>4 DEF Fits, Disjoint, Apart
<1>10. t.dirty = top.dirty
  BY <1>4, <1>8, <1>9
<1>11. \A d \in top.dirty \ W : t.entries[d] = entries[d]
  BY <1>4, <1>8, <1>9 DEF Fits
<1>12. HeldIn(t, mem)
  BY <1>4, <1>8, <1>10 DEF HeldIn
<1>13. Overlay(mem, t.entries, t.dirty) = Registers
  <2>1. \A d \in t.dirty : \A b \in Extent[d] : t.entries[d][b] = Registers[b]
    BY <1>1, <1>4, <1>5, <1>8, <1>10, <1>11, RegisterBytes
  <2>2. \A b \in Byte : (\A d \in t.dirty : b \notin Extent[d]) => mem[b] = Registers[b]
    BY <1>1, <1>4, <1>10, RegisterBytes
  <2>3. Fits(t) /\ Registers \in [Byte -> Value]
    BY <1>1, <1>8, RegisterBytes
  <2> QED
    BY <2>1, <2>2, <2>3, OverlayIs
<1>14. /\ TypeOK' /\ Coherent' /\ UndoInv' /\ ReadSettled'
       /\ Registers' = Registers /\ startRegs' = Registers
       /\ phase' = "checking" /\ result' = NoResult
       /\ entries' = t.entries /\ dirty' = t.dirty /\ reads' = t.reads
  <2>1. Registers \in [Byte -> Value] /\ mem' \in [Byte -> Value] /\ HeldIn(t, mem')
    BY <1>1, <1>2, <1>12, RegisterBytes DEF TypeOK
  <2>2. Registers = Overlay(mem', t.entries, t.dirty) /\ IterationTop(t, Registers)
    BY <1>2, <1>13
  <2>3. Fits(t)
    BY <1>8
  <2> QED
    BY <2>1, <2>2, <2>3, IterationStep
<1>15. PICK S : scopes \in Seq(S)
  BY <1>1 DEF Nested
<1>16. /\ scopes' \in Seq(S \cup {x})
       /\ scopes' # << >> /\ scopes'[1] = x /\ Head(scopes') = x
       /\ DOMAIN scopes' = DOMAIN scopes /\ DOMAIN scopes \subseteq Nat \ {0}
       /\ \A i \in DOMAIN scopes : i = 1 \/ scopes'[i] = scopes[i]
  <2>1. scopes' = << x >> \o Tail(scopes)
    BY <1>2
  <2>2. DOMAIN scopes = 1..Len(scopes) /\ Len(scopes) \in Nat
    BY <1>15
  <2> QED
    BY <1>3, <1>15, <2>1, <2>2, Replaced
<1>17. ~IsArm(x) /\ LoopFits(x, log, Tracker', mem)
  <2>1. t.dirty \subseteq top.dirty /\ \A d \in top.dirty \ W :
           d \in t.dirty /\ t.entries[d] = top.entries[d]
    BY <1>4, <1>10, <1>11
  <2> QED
    BY <1>3, <1>4, <1>6, <1>14, <2>1, TrackerFields DEF LoopFits, IsArm
<1>18. Nested(scopes', log', Tracker', mem')
  <2>1. log \subseteq Channel /\ Disjoint(log)
    BY <1>1 DEF Nested
  <2> QED
    BY <1>2, <1>3, <1>16, <1>17, <2>1 DEF Nested
<1>19. Chain(scopes', log', Tracker', mem')
  <2>1. Follows(Tracker, Tracker', log)
    <3>1. \A d \in dirty : Apart(d, log) => d \notin W
      BY <1>4, OverlapFacts DEF Apart
    <3> QED
      BY <1>4, <1>10, <1>11, <1>14, <3>1, TrackerFields DEF Follows
  <2>2. \A i \in DOMAIN scopes : IsArm(scopes[i]) => Fits(scopes[i].saved)
    BY <1>3 DEF ArmFits
  <2>3. Chain(scopes, log, Tracker', mem)
    BY <1>1, <2>1, <2>2, ChainMoved
  <2>4. /\ \A i \in DOMAIN scopes' : IsArm(scopes'[i]) \/ i = 1
        /\ \A i \in DOMAIN scopes' :
              IsArm(scopes'[i]) => i + 0 \in DOMAIN scopes /\ scopes[i + 0] = scopes'[i]
        /\ \A i \in DOMAIN scopes :
              IsArm(scopes[i]) => i - 0 \in DOMAIN scopes' /\ scopes'[i - 0] = scopes[i]
    BY <1>3, <1>16, <1>17
  <2>5. Chain(scopes', log, Tracker', mem)
    BY <1>16, <2>2, <2>3, <2>4, ChainShifted
  <2> QED
    BY <1>2, <2>5
<1>20. ArmsUndoable'
  BY <1>6, <1>16 DEF ArmsUndoable, InLoop, AtRoot, Inner
<1>21. Undoable' /\ phase' # "exited"
  BY <1>14 DEF Undoable
<1> QED
  BY <1>14, <1>18, <1>19, <1>20, <1>21 DEF StructuredInv

LEMMA LeaveLoopStep ==
    ASSUME StructuredInv, LeaveLoop
    PROVE  StructuredInv' /\ Registers' = Registers
<1> DEFINE W == Inner.carried
           top == Inner.top
           u == Invalidated(Tracker, W)
<1>1. /\ TypeOK /\ Coherent /\ ReadSettled
      /\ Nested(scopes, log, Tracker, mem) /\ Chain(scopes, log, Tracker, mem)
  BY DEF StructuredInv
<1>2. /\ InLoop /\ phase = "committing" /\ phase' = phase
      /\ SetTracker(u)
      /\ mem' = [b \in Byte |-> IF b \in UNION {Extent[c] : c \in W}
                                THEN Registers[b] ELSE mem[b]]
      /\ written' = written \cup W
      /\ scopes' = Tail(scopes)
      /\ startRegs' = startRegs /\ exact' = exact /\ log' = log
  BY DEF LeaveLoop
<1>3. /\ scopes # << >> /\ 1 \in DOMAIN scopes /\ 2 \in DOMAIN scopes
      /\ Inner = scopes[1] /\ ~IsArm(scopes[1])
      /\ LoopFits(Inner, log, Tracker, mem)
      /\ \A i \in DOMAIN scopes \ {1} : IsArm(scopes[i]) /\ ArmFits(scopes[i])
  BY <1>1, <1>2, LoopOpen
<1>4. /\ W \in SUBSET Channel /\ W \subseteq log
      /\ Fits(top) /\ W \subseteq top.dirty /\ dirty \subseteq top.dirty
  BY <1>3, TrackerFields DEF LoopFits
<1>5. Fits(Tracker) /\ HeldIn(Tracker, mem) /\ Tracker.entries = entries
      /\ Tracker.dirty = dirty /\ Tracker.reads = reads
  BY <1>1, TrackerFits
<1>6. u = Invalidated(Tracker, W)
  OBVIOUS
<1> HIDE DEF u, W, top
<1>7. /\ Fits(u)
      /\ DOMAIN u.entries = {c \in DOMAIN entries : Apart(c, W)}
      /\ \A c \in DOMAIN u.entries : u.entries[c] = entries[c]
      /\ u.dirty = {c \in dirty : Apart(c, W)}
      /\ DOMAIN u.reads = {c \in DOMAIN reads : Apart(c, W)}
      /\ \A c \in DOMAIN u.reads : u.reads[c] = reads[c]
  <2> HIDE DEF Tracker
  <2>1. /\ Fits(u)
        /\ DOMAIN u.entries = {c \in DOMAIN Tracker.entries : Apart(c, W)}
        /\ \A c \in DOMAIN u.entries : u.entries[c] = Tracker.entries[c]
        /\ u.dirty = {c \in Tracker.dirty : Apart(c, W)}
        /\ DOMAIN u.reads = {c \in DOMAIN Tracker.reads : Apart(c, W)}
        /\ \A c \in DOMAIN u.reads : u.reads[c] = Tracker.reads[c]
    BY <1>5, <1>6, InvalidatedFields
  <2> QED
    BY <1>5, <2>1
<1>8. /\ \A b \in Byte : \A c \in W : b \in Extent[c] => mem'[b] = Registers[b]
      /\ \A b \in Byte : (\A c \in W : b \notin Extent[c]) => mem'[b] = mem[b]
      /\ mem' \in [Byte -> Value]
  <2>1. \A b : b \in UNION {Extent[c] : c \in W} <=> \E c \in W : b \in Extent[c]
    OBVIOUS
  <2> QED
    BY <1>1, <1>2, <2>1, RegisterBytes DEF TypeOK
<1>9. ASSUME NEW c \in Channel, Apart(c, W)
      PROVE  On(mem', c) = On(mem, c)
  BY <1>8, <1>9, OverlapFacts DEF On, Apart
<1>10. HeldIn(u, mem')
  <2>1. ASSUME NEW c \in DOMAIN u.entries \ u.dirty
        PROVE  u.entries[c] = On(mem', c)
    <3>1. c \in DOMAIN entries \ dirty /\ Apart(c, W) /\ c \in Channel
      BY <1>1, <1>7 DEF TypeOK
    <3> QED
      BY <1>5, <1>7, <1>9, <3>1 DEF HeldIn
  <2>2. ASSUME NEW c \in DOMAIN u.reads
        PROVE  u.reads[c] = On(mem', c)
    <3>1. c \in DOMAIN reads /\ Apart(c, W) /\ c \in Channel
      BY <1>1, <1>7 DEF TypeOK
    <3> QED
      BY <1>5, <1>7, <1>9, <3>1 DEF HeldIn
  <2> QED
    BY <2>1, <2>2 DEF HeldIn
<1>11. /\ entries' = u.entries /\ dirty' = u.dirty /\ reads' = u.reads
  BY <1>2 DEF SetTracker
<1>12. TypeOK' /\ Coherent'
  <2>1. /\ exact' \subseteq Channel /\ written' \subseteq Channel
        /\ startRegs' \in [Byte -> Value]
        /\ phase' \in {"exited", "between", "checking", "committing"}
    BY <1>1, <1>2, <1>4 DEF TypeOK
  <2> QED
    BY <1>2, <1>7, <1>8, <1>10, <2>1, SetTrackerFits
<1>13. ReadSettled'
  BY <1>1, <1>2, <1>7, <1>11 DEF ReadSettled, Overlaps
\* What was pending and overlaps a carried channel is that channel.
<1>14. \A d \in dirty : Apart(d, W) \/ d \in W
  BY <1>4 DEF Fits, Disjoint, Apart
<1>15. Registers' = Registers
  <2>1. Registers \in [Byte -> Value]
    BY <1>1, RegisterBytes
  <2>2. \A d \in u.dirty : \A b \in Extent[d] : u.entries[d][b] = Registers[b]
    <3>1. \A d \in u.dirty : d \in dirty /\ u.entries[d] = entries[d]
      BY <1>7 DEF Fits
    <3> QED
      BY <1>1, <3>1, RegisterBytes
  <2>3. ASSUME NEW b \in Byte, \A d \in u.dirty : b \notin Extent[d]
        PROVE  mem'[b] = Registers[b]
    <3>1. CASE \E c \in W : b \in Extent[c]
      BY <1>8, <3>1
    <3>2. CASE \A c \in W : b \notin Extent[c]
      <4>1. \A d \in dirty : b \notin Extent[d]
        BY <1>7, <1>14, <2>3, <3>2
      <4> QED
        BY <1>1, <1>8, <3>2, <4>1, RegisterBytes
    <3> QED
      BY <3>1, <3>2
  <2>4. Overlay(mem', u.entries, u.dirty) = Registers
    <3>1. Fits(u)
      BY <1>7
    <3> QED
      BY <2>1, <2>2, <2>3, <3>1, OverlayIs
  <2> QED
    BY <1>11, <2>4 DEF Registers, Stored
<1>16. PICK S : scopes \in Seq(S)
  BY <1>1 DEF Nested
<1>17. /\ scopes' \in Seq(S) /\ scopes' # << >>
       /\ DOMAIN scopes \subseteq Nat \ {0} /\ DOMAIN scopes' \subseteq Nat \ {0}
       /\ \A i \in DOMAIN scopes' : scopes'[i] = scopes[i + 1] /\ i + 1 \in DOMAIN scopes
       /\ \A i \in DOMAIN scopes :
             i = 1 \/ (i - 1 \in DOMAIN scopes' /\ scopes[i] = scopes'[i - 1])
  <2>1. scopes' = Tail(scopes)
    BY <1>2
  <2>2. scopes \in Seq(S) /\ scopes # << >>
    BY <1>3, <1>16
  <2>3. /\ scopes' \in Seq(S)
        /\ DOMAIN scopes = 1..Len(scopes) /\ Len(scopes) \in Nat
        /\ DOMAIN scopes' = 1..(Len(scopes) - 1)
        /\ \A i \in DOMAIN scopes' : scopes'[i] = scopes[i + 1] /\ i + 1 \in DOMAIN scopes
        /\ \A i \in DOMAIN scopes :
              i = 1 \/ (i - 1 \in DOMAIN scopes' /\ scopes[i] = scopes'[i - 1])
    BY <2>1, <2>2, Popped
  <2>4. 1 \in DOMAIN scopes'
    BY <1>3, <2>3
  <2> QED
    BY <2>3, <2>4, DOMAIN << >> = {}
<1>18. \A i \in DOMAIN scopes' : IsArm(scopes'[i]) /\ ArmFits(scopes'[i])
  BY <1>3, <1>17
<1>19. Nested(scopes', log', Tracker', mem')
  <2>1. log' \subseteq Channel /\ Disjoint(log')
    BY <1>1, <1>2 DEF Nested
  <2>2. \E T : scopes' \in Seq(T)
    BY <1>17
  <2> QED
    BY <1>17, <1>18, <2>1, <2>2, NestedArms
<1>20. Chain(scopes', log', Tracker', mem')
  <2>1. Follows(Tracker, Tracker', log)
    <3>1. \A d \in dirty : Apart(d, log) => Apart(d, W)
      BY <1>4 DEF Apart
    <3>2. \A d \in dirty : Apart(d, W) => d \in u.dirty /\ u.entries[d] = entries[d]
      BY <1>7 DEF Fits
    <3> QED
      BY <1>7, <1>11, <3>1, <3>2, TrackerFields DEF Follows
  <2>2. \A i \in DOMAIN scopes : IsArm(scopes[i]) => Fits(scopes[i].saved)
    BY <1>3 DEF ArmFits
  <2>3. \A b \in Byte : mem'[b] = mem[b] \/ \E d \in log : b \in Extent[d]
    BY <1>4, <1>8
  <2>4. Chain(scopes, log, Tracker', mem')
    BY <1>1, <2>1, <2>2, <2>3, ChainMoved
  <2>5. /\ \A i \in DOMAIN scopes' :
              IsArm(scopes'[i]) => i + 1 \in DOMAIN scopes /\ scopes[i + 1] = scopes'[i]
        /\ \A i \in DOMAIN scopes :
              IsArm(scopes[i]) => i - 1 \in DOMAIN scopes' /\ scopes'[i - 1] = scopes[i]
    BY <1>3, <1>17
  <2>6. /\ DOMAIN scopes \subseteq Nat /\ DOMAIN scopes' \subseteq Nat \ {0}
        /\ \A i \in DOMAIN scopes' : IsArm(scopes'[i]) \/ i = 1
        /\ 1 \in Int
    BY <1>17, <1>18
  <2>7. Chain(scopes', log, Tracker', mem')
    BY <2>2, <2>4, <2>5, <2>6, ChainShifted
  <2> QED
    BY <1>2, <2>7
<1>21. ArmsUndoable' /\ Undoable' /\ phase' # "exited"
  BY <1>2 DEF ArmsUndoable, Undoable
<1> QED
  BY <1>12, <1>13, <1>15, <1>19, <1>20, <1>21 DEF StructuredInv

\* The seeds of a loop: what it needs is stored, and every register is where
\* it was, in memory or under a name the loop does not break.
LEMMA SeededHeld ==
    ASSUME TypeOK, Coherent, NEW F \in SUBSET dirty, mem' = Stored(F),
           NEW u, u = AfterFlush(Tracker, F)
    PROVE  /\ Fits(u) /\ HeldIn(u, mem') /\ mem' \in [Byte -> Value]
           /\ u.entries = entries /\ u.dirty = dirty \ F
           /\ \A b \in Byte : (\A d \in F : b \notin Extent[d]) => mem'[b] = mem[b]
           /\ \A b \in Byte : (\A d \in dirty \ F : b \notin Extent[d])
                                 => mem'[b] = Registers[b]
<1>1. /\ Fits(Tracker) /\ HeldIn(Tracker, mem) /\ Tracker.entries = entries
      /\ Tracker.dirty = dirty /\ Tracker.reads = reads
  BY TrackerFits
<1>2. F \in SUBSET DOMAIN entries /\ Flushed(F) = F
  BY DEF TypeOK, Flushed
<1> HIDE DEF Tracker
<1>3. /\ Fits(u) /\ u.entries = entries /\ u.dirty = dirty \ F
      /\ DOMAIN u.reads = {c \in DOMAIN reads : Apart(c, F)}
      /\ \A c \in DOMAIN u.reads : u.reads[c] = reads[c]
  <2>1. F \in SUBSET Tracker.dirty
    BY <1>1
  <2>2. /\ Fits(u) /\ u.entries = Tracker.entries /\ u.dirty = Tracker.dirty \ F
        /\ DOMAIN u.reads = {c \in DOMAIN Tracker.reads : Apart(c, F)}
        /\ \A c \in DOMAIN u.reads : u.reads[c] = Tracker.reads[c]
    BY <1>1, <2>1, AfterFlushFields
  <2> QED
    BY <1>1, <2>2
<1>4. \A b \in Byte : (\A d \in F : b \notin Extent[d]) => mem'[b] = mem[b]
  BY StoredElsewhere
<1>5. mem' \in [Byte -> Value]
  BY <1>2, StoredType
<1>6. ASSUME NEW b \in Byte, \A d \in dirty \ F : b \notin Extent[d]
      PROVE  mem'[b] = Registers[b]
  <2>1. Overlay(mem', entries, dirty \ F) = Registers
    BY <1>2, FlushKeepsRegisters
  <2>2. Overlay(mem', entries, dirty \ F)[b] = mem'[b]
    BY <1>6, OverlayElsewhere
  <2> QED
    BY <2>1, <2>2
<1>7. ASSUME NEW c \in DOMAIN u.entries \ u.dirty
      PROVE  u.entries[c] = On(mem', c)
  <2>1. c \in DOMAIN entries \ (dirty \ F) /\ u.entries[c] = entries[c]
    BY <1>3
  <2>2. entries[c] = On(Stored(Flushed(F)), c)
    BY <1>2, <2>1, FlushedEntries
  <2> QED
    BY <1>2, <2>1, <2>2
<1>8. ASSUME NEW c \in DOMAIN u.reads
      PROVE  u.reads[c] = On(mem', c)
  <2>1. c \in Channel /\ c \in DOMAIN reads /\ Apart(c, F) /\ u.reads[c] = reads[c]
    BY <1>3 DEF Fits
  <2>2. \A b \in Extent[c] : b \in Byte /\ mem'[b] = mem[b]
    BY <1>4, <2>1, OverlapFacts DEF Apart
  <2> QED
    BY <1>1, <2>1, <2>2 DEF HeldIn, On
<1> QED
  BY <1>3, <1>4, <1>5, <1>6, <1>7, <1>8 DEF HeldIn

LEMMA EnterLoopStep ==
    ASSUME StructuredInv, NEW W \in LoopWrites, EnterLoop(W)
    PROVE  /\ StructuredInv' /\ Registers' = Registers /\ startRegs' = Registers
           /\ phase' = "checking" /\ result' = NoResult
<1> DEFINE F == FlushedToRead(Tracker, W)
           seeded == AfterFlush(Tracker, F)
           missing == W \ DOMAIN entries
           values == [c \in W |-> On(Registers, c)]
           read == [seeded EXCEPT !.reads =
                       [c \in DOMAIN @ \cup missing |->
                           IF c \in missing THEN values[c] ELSE @[c]]]
           top == Carrying(read, values)
           x == [kind |-> "loop", carried |-> W, entry |-> mem',
                 top |-> top, iteration |-> 1]
           N == log \cup W
<1>1. /\ TypeOK /\ Coherent
      /\ Nested(scopes, log, Tracker, mem) /\ Chain(scopes, log, Tracker, mem)
  BY DEF StructuredInv
<1>2. /\ InArm /\ Disjoint(N)
      /\ mem' = Stored(F)
      /\ IterationTop(top, Registers)
      /\ scopes' = << x >> \o scopes
      /\ log' = N
  BY DEF EnterLoop
<1>3. W \in SUBSET Channel /\ Disjoint(W)
  BY DEF LoopWrites
<1>4. /\ F \in SUBSET dirty
      /\ \A d \in F : \E c \in W : c # d /\ Overlaps(c, d)
      /\ \A d \in dirty : d \in F \/ d \in W \/ Apart(d, W)
  BY TrackerFields, OverlapFacts DEF FlushedToRead, Apart
<1>5. /\ x.kind = "loop" /\ x.carried = W /\ x.entry = mem' /\ x.top = top
      /\ DOMAIN x = {"kind", "carried", "entry", "top", "iteration"}
  OBVIOUS
<1>6. /\ DOMAIN values = W
      /\ \A c \in W : values[c] \in ChannelValue(c)
      /\ \A c \in W : \A b \in Extent[c] : values[c][b] = Registers[b]
  BY <1>1, <1>3, CarriedValues
<1>7. \A c \in W : values[c] = On(Registers, c)
  OBVIOUS
<1>8. seeded = AfterFlush(Tracker, F) /\ top = Carrying(read, values)
  OBVIOUS
<1>9. read = [seeded EXCEPT !.reads = [c \in DOMAIN @ \cup missing |->
                                          IF c \in missing THEN values[c] ELSE @[c]]]
  OBVIOUS
<1>10. missing \subseteq W /\ \A c \in missing : c \notin dirty
  BY <1>1 DEF TypeOK
<1> HIDE DEF F, seeded, missing, values, read, top, x, N
<1>11. /\ Fits(seeded) /\ HeldIn(seeded, mem') /\ mem' \in [Byte -> Value]
       /\ seeded.entries = entries /\ seeded.dirty = dirty \ F
       /\ \A b \in Byte : (\A d \in F : b \notin Extent[d]) => mem'[b] = mem[b]
       /\ \A b \in Byte : (\A d \in dirty \ F : b \notin Extent[d])
                             => mem'[b] = Registers[b]
  <2> HIDE DEF Tracker
  <2> QED
    BY <1>1, <1>2, <1>4, <1>8, SeededHeld
<1>12. \A c \in missing : values[c] \in ChannelValue(c) /\ values[c] = On(mem', c)
  <2> SUFFICES ASSUME NEW c \in missing
               PROVE  values[c] = On(mem', c)
    BY <1>6, <1>10
  <2>1. \A b \in Extent[c] : b \in Byte /\ mem'[b] = Registers[b]
    <3> SUFFICES ASSUME NEW b \in Extent[c]
                 PROVE  b \in Byte /\ mem'[b] = Registers[b]
      OBVIOUS
    <3>1. b \in Byte /\ c \in W
      BY <1>3, <1>10, OverlapFacts
    <3>2. \A d \in dirty \ F : b \notin Extent[d]
      <4> SUFFICES ASSUME NEW d \in dirty \ F, b \in Extent[d]
                   PROVE  FALSE
        OBVIOUS
      <4>1. Overlaps(d, c) /\ d # c
        BY <1>10, OverlapFacts
      <4>2. d \in W
        BY <1>4, <3>1, <4>1 DEF Apart
      <4> QED
        BY <1>3, <3>1, <4>1, <4>2 DEF Disjoint
    <3> QED
      BY <1>11, <3>1, <3>2
  <2> QED
    BY <1>7, <1>10, <2>1 DEF On
<1>13. Fits(read) /\ HeldIn(read, mem') /\ read.entries = entries /\ read.dirty = dirty \ F
  <2>1. /\ DOMAIN read = {"entries", "dirty", "boundaryKeys", "restore", "reads",
                          "unrestorable"}
        /\ read.entries = seeded.entries /\ read.dirty = seeded.dirty
        /\ read.boundaryKeys = seeded.boundaryKeys /\ read.restore = seeded.restore
        /\ read.unrestorable = seeded.unrestorable
        /\ read.reads = [c \in DOMAIN seeded.reads \cup missing |->
                            IF c \in missing THEN values[c] ELSE seeded.reads[c]]
    BY <1>9, <1>11 DEF Fits
  <2>2. missing \subseteq Channel
    BY <1>3, <1>10
  <2>3. /\ DOMAIN read.reads \subseteq Channel
        /\ \A c \in DOMAIN read.reads :
              read.reads[c] \in ChannelValue(c) /\ read.reads[c] = On(mem', c)
    BY <1>11, <1>12, <2>1, <2>2 DEF Fits, HeldIn
  <2>4. Fits(read)
    BY <1>11, <2>1, <2>3 DEF Fits
  <2>5. HeldIn(read, mem')
    BY <1>11, <2>1, <2>3 DEF HeldIn
  <2> QED
    BY <1>11, <2>1, <2>4, <2>5
<1>14. /\ Fits(top)
       /\ DOMAIN top.entries = {c \in DOMAIN entries : Apart(c, W)} \cup W
       /\ \A c \in W : top.entries[c] = values[c]
       /\ \A c \in DOMAIN top.entries \ W : top.entries[c] = entries[c]
       /\ top.dirty = {c \in dirty \ F : Apart(c, W)} \cup W
       /\ top.reads = read.reads
  <2>1. /\ Fits(top)
        /\ DOMAIN top.entries = {c \in DOMAIN read.entries : Apart(c, W)} \cup W
        /\ \A c \in W : top.entries[c] = values[c]
        /\ \A c \in DOMAIN top.entries \ W : top.entries[c] = read.entries[c]
        /\ top.dirty = {c \in read.dirty : Apart(c, W)} \cup W
        /\ top.reads = read.reads
    BY <1>3, <1>6, <1>8, <1>13, CarryingFields
  <2> QED
    BY <1>13, <2>1
<1>15. HeldIn(top, mem')
  BY <1>13, <1>14 DEF HeldIn
\* What is pending and not stored is carried, or still pending at the top.
<1>16. \A d \in dirty \ F : d \in top.dirty
  BY <1>4, <1>14
<1>17. Overlay(mem', top.entries, top.dirty) = Registers
  <2>1. \A d \in top.dirty : \A b \in Extent[d] : top.entries[d][b] = Registers[b]
    <3> SUFFICES ASSUME NEW d \in top.dirty, d \notin W
                 PROVE  \A b \in Extent[d] : top.entries[d][b] = Registers[b]
      BY <1>6, <1>14
    <3>1. d \in dirty /\ top.entries[d] = entries[d]
      BY <1>14 DEF Fits
    <3> QED
      BY <1>1, <3>1, RegisterBytes
  <2>2. \A b \in Byte : (\A d \in top.dirty : b \notin Extent[d]) => mem'[b] = Registers[b]
    BY <1>11, <1>16
  <2>3. Fits(top) /\ Registers \in [Byte -> Value]
    BY <1>1, <1>14, RegisterBytes
  <2> QED
    BY <2>1, <2>2, <2>3, OverlayIs
<1>18. /\ TypeOK' /\ Coherent' /\ UndoInv' /\ ReadSettled'
       /\ Registers' = Registers /\ startRegs' = Registers
       /\ phase' = "checking" /\ result' = NoResult
       /\ entries' = top.entries /\ dirty' = top.dirty /\ reads' = top.reads
  <2>1. /\ Registers \in [Byte -> Value] /\ mem' \in [Byte -> Value]
        /\ Fits(top) /\ HeldIn(top, mem')
    BY <1>1, <1>11, <1>14, <1>15, RegisterBytes
  <2>2. Registers = Overlay(mem', top.entries, top.dirty) /\ IterationTop(top, Registers)
    BY <1>2, <1>17
  <2> QED
    BY <2>1, <2>2, IterationStep
<1>19. /\ scopes # << >> /\ ~InLoop
       /\ \A i \in DOMAIN scopes : IsArm(scopes[i]) /\ ArmFits(scopes[i])
  BY <1>1, <1>2, ArmsOpen DEF InArm, InLoop, AtRoot
<1>20. PICK S : scopes \in Seq(S)
  BY <1>1 DEF Nested
<1>21. /\ scopes' \in Seq(S \cup {x})
       /\ scopes'[1] = x /\ scopes' # << >> /\ Head(scopes') = x
       /\ DOMAIN scopes' = 1..(Len(scopes) + 1)
       /\ DOMAIN scopes = 1..Len(scopes) /\ Len(scopes) \in Nat
       /\ \A i \in DOMAIN scopes : scopes'[i + 1] = scopes[i] /\ i + 1 \in DOMAIN scopes'
       /\ \A i \in DOMAIN scopes' : i = 1 \/ (i - 1 \in DOMAIN scopes /\ scopes'[i] = scopes[i - 1])
  BY <1>2, <1>20, Pushed
<1>22. 2 \in DOMAIN scopes'
  <2>1. Len(scopes) # 0
    BY <1>19, <1>20, EmptySeq
  <2> QED
    BY <1>21, <2>1
<1>23. ~IsArm(x) /\ LoopFits(x, N, Tracker', mem')
  <2>1. W \subseteq N /\ W \subseteq top.dirty
    BY <1>14 DEF N
  <2> QED
    BY <1>3, <1>5, <1>14, <1>15, <1>18, <2>1, TrackerFields DEF LoopFits, IsArm
<1>24. N \subseteq Channel /\ log \subseteq N
  BY <1>1, <1>3 DEF Nested, N
<1>25. Nested(scopes', log', Tracker', mem')
  <2>1. \A i \in DOMAIN scopes' : i = 1 \/ ArmFits(scopes'[i])
    BY <1>19, <1>21
  <2> QED
    BY <1>2, <1>21, <1>22, <1>23, <1>24, <2>1 DEF Nested
<1>26. Chain(scopes', log', Tracker', mem')
  <2>1. Follows(Tracker, Tracker', N)
    <3>1. \A d \in dirty : Apart(d, N) => Apart(d, W) /\ d \notin F
      BY <1>4, OverlapFacts DEF Apart, N
    <3>2. \A d \in dirty : Apart(d, N) => d \in top.dirty /\ d \notin W
      BY <1>3, <1>16, <3>1, OverlapFacts DEF Apart
    <3>3. \A d \in dirty : Apart(d, N) => top.entries[d] = entries[d]
      BY <1>14, <3>2 DEF Fits
    <3>4. top.dirty \subseteq dirty \cup N
      BY <1>14 DEF N
    <3> QED
      BY <1>18, <3>2, <3>3, <3>4, TrackerFields DEF Follows
  <2>2. \A i \in DOMAIN scopes : IsArm(scopes[i]) => Fits(scopes[i].saved)
    BY <1>19 DEF ArmFits
  <2>3. ASSUME NEW b \in Byte
        PROVE  \/ mem'[b] = mem[b]
               \/ \E d \in Tracker.dirty : ~Apart(d, N) /\ b \in Extent[d]
    <3>1. \A d \in F : d \in Tracker.dirty /\ ~Apart(d, N)
      BY <1>4, TrackerFields, OverlapFacts DEF Apart, N
    <3> QED
      BY <1>11, <3>1
  <2>4. Chain(scopes, N, Tracker', mem')
    BY <1>1, <1>24, <2>1, <2>2, <2>3, ChainMoved
  <2>5. /\ DOMAIN scopes \subseteq Nat /\ DOMAIN scopes' \subseteq Nat \ {0}
        /\ -1 \in Int
    BY <1>21
  <2>6. /\ \A i \in DOMAIN scopes' : IsArm(scopes'[i]) \/ i = 1
        /\ \A i \in DOMAIN scopes' :
              IsArm(scopes'[i]) => i + (-1) \in DOMAIN scopes /\ scopes[i + (-1)] = scopes'[i]
        /\ \A i \in DOMAIN scopes :
              IsArm(scopes[i]) => i - (-1) \in DOMAIN scopes' /\ scopes'[i - (-1)] = scopes[i]
    <3>1. \A i \in Nat : i + (-1) = i - 1 /\ i - (-1) = i + 1
      OBVIOUS
    <3> QED
      BY <1>19, <1>21, <1>23, <2>5, <3>1
  <2>7. Chain(scopes', N, Tracker', mem')
    BY <2>2, <2>4, <2>5, <2>6, ChainShifted
  <2> QED
    BY <1>2, <2>7
<1>27. ArmsUndoable'
  BY <1>5, <1>21 DEF ArmsUndoable, InLoop, AtRoot, Inner
<1>28. Undoable' /\ phase' # "exited"
  BY <1>18 DEF Undoable
<1> QED
  BY <1>18, <1>25, <1>26, <1>27, <1>28 DEF StructuredInv

-----------------------------------------------------------------------------
(***************************************************************************)
(* Every step keeps the invariant, and is a step of the register file: an  *)
(* arm that opens or ends and a loop that ends change no register, and the *)
(* top of an iteration is where the register file says it is.              *)
(***************************************************************************)
LEMMA StructuredStart == StructuredInit => StructuredInv
<1> SUFFICES ASSUME StructuredInit
             PROVE  StructuredInv
  OBVIOUS
<1>1. Init /\ scopes = << >> /\ log = {} /\ phase = "exited"
  BY DEF StructuredInit, Init
<1>2. TypeOK /\ Coherent
  BY <1>1, EmptyTracker DEF Init, TypeOK
<1>3. Undoable /\ ReadSettled /\ ArmsUndoable
  BY <1>1 DEF Init, Undoable, ReadSettled, ArmsUndoable
<1>4. DOMAIN scopes = {} /\ \E S : scopes \in Seq(S)
  BY <1>1, DOMAIN << >> = {}, EmptySeq
<1>5. Nested(scopes, log, Tracker, mem)
  BY <1>1, <1>4 DEF Nested, Disjoint
<1>6. Chain(scopes, log, Tracker, mem)
  BY <1>4 DEF Chain
<1> QED
  BY <1>1, <1>2, <1>3, <1>5, <1>6 DEF StructuredInv

\* What the register file sees of a path.
FileStepOrStutter == [File!Next]_(File!vars)

LEMMA TrackerStep ==
    ASSUME StructuredInv, Semantics = "shipped", Next
    PROVE  FileStepOrStutter
BY FileStep, UndoableFaults DEF StructuredInv, FileStepOrStutter

\* The registers stay and the path stands where it stood.
LEMMA FileStutter ==
    ASSUME StructuredInv, Registers' = Registers, phase' = phase, Running,
           UNCHANGED <<result, startRegs>>
    PROVE  FileStepOrStutter
BY DEF FileStepOrStutter, File!vars, Running

\* An iteration starts.
LEMMA FileIterates ==
    ASSUME StructuredInv, Running, Registers' = Registers, startRegs' = Registers,
           phase' = "checking", result' = NoResult
    PROVE  FileStepOrStutter
BY DEF FileStepOrStutter, File!Next, File!Iterate, File!Running, Running, NoResult,
       File!NoResult

LEMMA StructuredStep ==
    ASSUME Semantics = "shipped", Programs = "aligned",
           StructuredInv, [StructuredNext]_structuredVars
    PROVE  StructuredInv' /\ FileStepOrStutter
<1>1. CASE (Enter \/ Commit) /\ UNCHANGED structure
  <2>1. UNCHANGED <<scopes, log>> /\ Next
    BY <1>1 DEF structure, Next
  <2> QED
    BY <1>1, <2>1, PlainStep, TrackerStep
<1>2. CASE AtRoot /\ BeginInstruction /\ UNCHANGED structure
  <2>1. UNCHANGED <<scopes, log>> /\ Next
    BY <1>2 DEF structure, Next
  <2> QED
    BY <1>2, <2>1, PlainStep, TrackerStep
<1>3. CASE Complete /\ UNCHANGED structure
  <2>1. UNCHANGED <<scopes, log>> /\ Next
    BY <1>3 DEF structure, Next
  <2> QED
    BY <1>3, <2>1, PlainStep, TrackerStep
<1>4. CASE EndPath(Fault) \/ EndPath(Publish)
  <2>1. Next
    BY <1>4 DEF EndPath, Next
  <2> QED
    BY <1>4, <2>1, EndStep, TrackerStep
<1>5. ASSUME NEW which \in {"then", "else"}, OpenArm(which)
      PROVE  StructuredInv' /\ FileStepOrStutter
  <2>1. UNCHANGED vars
    BY <1>5 DEF OpenArm
  <2>2. FileStepOrStutter
    BY <2>1, FileStep, UndoableFaults DEF StructuredInv, FileStepOrStutter
  <2> QED
    BY <1>5, <2>2, OpenArmStep
<1>6. ASSUME NEW W \in LoopWrites, EnterLoop(W)
      PROVE  StructuredInv' /\ FileStepOrStutter
  <2>1. Running
    BY <1>6 DEF EnterLoop
  <2> QED
    BY <1>6, <2>1, EnterLoopStep, FileIterates
<1>7. ASSUME NEW continues \in BOOLEAN, NEW W \in SUBSET Channel, LeaveArm(continues, W)
      PROVE  StructuredInv' /\ FileStepOrStutter
  <2>1. Running /\ UNCHANGED <<phase, result, startRegs>>
    BY <1>7 DEF LeaveArm
  <2> QED
    BY <1>7, <2>1, LeaveArmStep, FileStutter
<1>8. CASE LeaveLoop
  <2>1. Running /\ UNCHANGED <<phase, result, startRegs>>
    BY <1>8 DEF LeaveLoop, Running
  <2> QED
    BY <1>8, <2>1, LeaveLoopStep, FileStutter
<1>9. CASE ContinueLoop
  <2>1. Running
    BY <1>9 DEF ContinueLoop
  <2> QED
    BY <1>9, <2>1, ContinueLoopStep, FileIterates
<1>10. ASSUME NEW c \in Channel, ReadName(c)
       PROVE  StructuredInv' /\ FileStepOrStutter
  BY <1>10, ReadNameStep, TrackerStep
<1>11. ASSUME NEW c \in Channel, NEW v \in ChannelValue(c), WriteName(c, v)
       PROVE  StructuredInv' /\ FileStepOrStutter
  BY <1>11, WriteNameStep, TrackerStep
<1>12. CASE UNCHANGED structuredVars
  <2>1. UNCHANGED vars
    BY <1>12 DEF structuredVars
  <2>2. FileStepOrStutter
    BY <2>1, FileStep, UndoableFaults DEF StructuredInv, FileStepOrStutter
  <2> QED
    BY <1>12, <2>2, StutterStep
<1>13. Open => StructuredInv' /\ FileStepOrStutter
  BY <1>5, <1>6 DEF Open
<1>14. Leave => StructuredInv' /\ FileStepOrStutter
  BY <1>7, <1>8, <1>9 DEF Leave
<1>15. Access => StructuredInv' /\ FileStepOrStutter
  BY <1>10, <1>11 DEF Access
<1> QED
  BY <1>1, <1>2, <1>3, <1>4, <1>12, <1>13, <1>14, <1>15 DEF StructuredNext

\* The inductive invariant holds of every path of the "aligned" programs.
THEOREM StructuredInvariant ==
    ASSUME Semantics = "shipped", Programs = "aligned"
    PROVE  StructuredSpec => []StructuredInv
<1>1. StructuredInv /\ [StructuredNext]_structuredVars => StructuredInv'
  BY StructuredStep
<1> QED
  BY <1>1, StructuredStart, PTL DEF StructuredSpec

(***************************************************************************)
(* Every snapshot an arm keeps is a tracker, every channel a loop carries  *)
(* is pending at its top, and the log never names one byte twice           *)
(* (enterScope, LoopScope, StateWriteLog).                                 *)
(***************************************************************************)
THEOREM ScopesTyped ==
    ASSUME Semantics = "shipped", Programs = "aligned"
    PROVE  StructuredSpec => []StructuredTypeOK
<1>1. StructuredInv => StructuredTypeOK
  <2> SUFFICES ASSUME StructuredInv
               PROVE  StructuredTypeOK
    OBVIOUS
  <2>1. /\ TypeOK /\ log \subseteq Channel /\ Disjoint(log)
        /\ Nested(scopes, log, Tracker, mem)
    BY DEF StructuredInv, Nested
  <2>2. ASSUME NEW i \in DOMAIN scopes, ArmFits(scopes[i])
        PROVE  /\ scopes[i].kind \in {"then", "else"}
               /\ scopes[i].saved.dirty \subseteq DOMAIN scopes[i].saved.entries
               /\ DOMAIN scopes[i].saved.reads \subseteq Channel
    BY <2>2 DEF ArmFits, Fits
  <2>3. ASSUME NEW i \in DOMAIN scopes, LoopFits(scopes[i], log, Tracker, mem)
        PROVE  /\ scopes[i].kind = "loop"
               /\ scopes[i].top.dirty \subseteq DOMAIN scopes[i].top.entries
               /\ DOMAIN scopes[i].top.reads \subseteq Channel
               /\ scopes[i].entry \in [Byte -> Value]
               /\ scopes[i].carried \subseteq scopes[i].top.dirty
    BY <2>1, <2>3 DEF LoopFits, Fits, TypeOK
  <2>4. \A i \in DOMAIN scopes :
           ArmFits(scopes[i]) \/ LoopFits(scopes[i], log, Tracker, mem)
    BY <2>1 DEF Nested
  <2> QED
    BY <2>1, <2>2, <2>3, <2>4 DEF StructuredTypeOK
<1> QED
  BY <1>1, StructuredInvariant, PTL

(***************************************************************************)
(* Joins and loops keep the tracker coherent: no byte is tracked twice,    *)
(* and what is tracked clean or cached is what memory holds, whatever an   *)
(* arm left in memory and whatever the loop carried.                       *)
(***************************************************************************)
THEOREM ScopesKeepCoherence ==
    ASSUME Semantics = "shipped", Programs = "aligned"
    PROVE  StructuredSpec => []Coherent
<1>1. StructuredInv => Coherent
  BY DEF StructuredInv
<1> QED
  BY <1>1, StructuredInvariant, PTL

(***************************************************************************)
(* A raise inside arms or in a loop iteration can always be undone: back   *)
(* to the start of the instruction, or to the top of the iteration.        *)
(***************************************************************************)
THEOREM FaultUndoesIteration ==
    ASSUME Semantics = "shipped", Programs = "aligned"
    PROVE  StructuredSpec => [](BoundaryRestoresStart /\ FaultsAreRestorable)
<1>1. StructuredInv => BoundaryRestoresStart /\ FaultsAreRestorable
  BY UndoableFaults DEF StructuredInv
<1> QED
  BY <1>1, StructuredInvariant, PTL

(***************************************************************************)
(* The tracker across arms and loops implements the register transaction:  *)
(* joins and loop exits show nowhere, an iteration is a transaction of its *)
(* own, and every read returns what was written last on the path taken.    *)
(***************************************************************************)
THEOREM ScopesImplementRegisterFile ==
    ASSUME Semantics = "shipped", Programs = "aligned"
    PROVE  StructuredSpec => RegisterTransaction
<1>1. StructuredInit => File!Init
  BY DEF StructuredInit, Init, File!Init, NoResult, File!NoResult
<1>2. StructuredInv /\ [StructuredNext]_structuredVars => [File!Next]_(File!vars)
  BY StructuredStep DEF FileStepOrStutter
<1> QED
  BY <1>1, <1>2, StructuredInvariant, PTL
     DEF StructuredSpec, RegisterTransaction, File!Spec

(***************************************************************************)
(* In the "aligned" programs a read placed before the loop is a read of    *)
(* the register: resourceReadPlacement may take what the loop does not     *)
(* carry for loop-invariant as long as no read of the body flushes.        *)
(***************************************************************************)
THEOREM AlignedLoopReadsAreCurrent ==
    ASSUME Semantics = "shipped", Programs = "aligned"
    PROVE  StructuredSpec => LoopReadsAreCurrent
<1>1. StructuredInv /\ [StructuredNext]_structuredVars =>
        [\A c \in Channel : InLoop /\ ReadName(c) => result' = On(Registers, c)]_structuredVars
  <2> SUFFICES ASSUME StructuredInv, NEW c \in Channel, ReadName(c)
               PROVE  result' = On(Registers, c)
    OBVIOUS
  <2>1. TypeOK /\ Coherent /\ Read(c)
    BY ReadNameQuiet DEF StructuredInv
  <2>2. CASE ReadTracked(c)
    BY <2>1, <2>2, ReadTrackedRegisters DEF ReadTracked
  <2>3. CASE ReadState(c)
    BY <2>1, <2>3, ReadStateRegisters
  <2> QED
    BY <2>1, <2>2, <2>3 DEF Read
<1> QED
  BY <1>1, StructuredInvariant, PTL DEF StructuredSpec, LoopReadsAreCurrent

=============================================================================
