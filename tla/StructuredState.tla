-------------------------- MODULE StructuredState --------------------------
(***************************************************************************)
(* The register tracker of GprState across the arms and the loops of a     *)
(* generated function (lowering/control.ts, loop.ts, state/loop-scope.ts,  *)
(* state/write-log.ts, state/state.ts).  One path of the function is       *)
(* followed.  An arm is lowered from a snapshot of the tracker that is put *)
(* back when it ends, so what the arm left in memory reaches the code      *)
(* after the join only through the channels the write log names: both arms *)
(* store them, and the tracker forgets them.  A loop carries the channels  *)
(* its body writes in locals, reads every other channel before its first   *)
(* iteration, and makes the top of each iteration the fault boundary.      *)
(*                                                                         *)
(* A one-armed if is an if whose other arm does nothing: the implicit else *)
(* stores what the missing channels of such an arm would.  Arms that only  *)
(* raise or exit end the path they are on and join nothing.  Registers     *)
(* chosen at run time (the interpreter's) are GprState's.                  *)
(***************************************************************************)
EXTENDS GprState, Sequences

CONSTANTS
    MaxArms,        \* bound: arms open at once
    MaxIterations,  \* bound: iterations of one loop that the path takes
    MaxScopes,      \* bound: scopes one path opens
    MaxAccesses,    \* bound: reads and writes of one path
    Programs        \* which guest programs the function is built from

ASSUME BoundAssumption ==
    /\ MaxArms \in Nat /\ MaxScopes \in Nat /\ MaxAccesses \in Nat
    /\ MaxIterations \in Nat \ {0}

(***************************************************************************)
(* "aligned": no arm or loop body reads a register by a name that overlaps *)
(* another name whose store is still pending, so no read in it flushes;    *)
(* "any": blocks of every program, "rep stosb" after "mov eax, 1" included.*)
(***************************************************************************)
ASSUME ProgramsAssumption == Programs \in {"aligned", "any"}

VARIABLES
    scopes,     \* the open scopes, innermost first
    log,        \* StateWriteLog since the innermost arm opened
    opened,     \* the scopes the path has opened
    accesses    \* the reads and writes the path has made

counters == <<opened, accesses>>
structure == <<scopes, log, counters>>
structuredVars == <<vars, structure>>

Tracker == [entries |-> entries, dirty |-> dirty, boundaryKeys |-> boundaryKeys,
            restore |-> restore, reads |-> reads,
            unrestorable |-> unrestorableStore]

SetTracker(t) ==
    /\ entries' = t.entries
    /\ dirty' = t.dirty
    /\ boundaryKeys' = t.boundaryKeys
    /\ restore' = t.restore
    /\ reads' = t.reads
    /\ unrestorableStore' = t.unrestorable

Inner == Head(scopes)

AtRoot == scopes = << >>

InArm == ~AtRoot /\ Inner.kind # "loop"

InLoop == ~AtRoot /\ Inner.kind = "loop"

Disjoint(S) == \A c, d \in S : c # d => ~Overlaps(c, d)

\* The log is read from an arm's checkpoint on, so nothing reads it at the root.
Logged(S) == IF AtRoot THEN {} ELSE S

(***************************************************************************)
(* What an arm of the shipped semantics may write: a name the instruction  *)
(* read by that name before the arm opened, and of which it has written no *)
(* other part (cmpxchg).  The loop of a REP carries any name, in an arm    *)
(* whose other side is the implicit else.                                  *)
(***************************************************************************)
Settled ==
    {c \in exact : /\ \A d \in written : d # c => ~Overlaps(c, d)
                   /\ InArm => c \in Inner.settled}

-----------------------------------------------------------------------------
\* The channels #flush stores when every channel of W is read: what overlaps
\* a channel without being it.
FlushedToRead(t, W) == {d \in t.dirty : \E c \in W : c # d /\ Overlaps(c, d)}

AfterFlush(t, F) ==
    LET late == (F \ t.boundaryKeys) \cap DOMAIN t.reads
        bytes == UNION {Extent[c] : c \in late} IN
    [t EXCEPT !.dirty = @ \ F,
              !.boundaryKeys = @ \cup late,
              !.restore = [b \in DOMAIN @ \cup bytes |->
                  IF b \in bytes
                  THEN t.reads[CHOOSE c \in late : b \in Extent[c]][b]
                  ELSE @[b]],
              !.reads = Without(@, {r \in DOMAIN @ : \E c \in F : Overlaps(r, c)}),
              !.unrestorable = @ \/ (F \ t.boundaryKeys) # late]

\* Slip: the cached reads survive the invalidation.
InvalidatedEntriesOnly(t, W) ==
    LET gone(c) == \E w \in W : Overlaps(c, w) IN
    [t EXCEPT !.entries = Without(@, {c \in DOMAIN @ : gone(c)}),
              !.dirty = {c \in @ : ~gone(c)}]

\* invalidate() of every channel of W: the next read goes back to memory.
Invalidated(t, W) ==
    LET gone(c) == \E w \in W : Overlaps(c, w) IN
    [t EXCEPT !.entries = Without(@, {c \in DOMAIN @ : gone(c)}),
              !.dirty = {c \in @ : ~gone(c)},
              !.reads = Without(@, {c \in DOMAIN @ : gone(c)})]

\* #flushDirtyChannelsInto: m once the dirty channels of W are stored in it.
Committed(m, t, W) ==
    Overlay(m, t.entries, {d \in t.dirty : \E c \in W : Overlaps(c, d)})

-----------------------------------------------------------------------------
StructuredInit == Init /\ scopes = << >> /\ log = {} /\ opened = 0 /\ accesses = 0

\* enterScope for an arm; which is the arm's place in the if.
OpenArm(which) ==
    /\ Running
    /\ ~InLoop
    /\ Len(scopes) < MaxArms
    /\ scopes' = << [kind |-> which, saved |-> Tracker, log |-> log,
                     exact |-> exact, written |-> written,
                     settled |-> Settled] >> \o scopes
    /\ log' = {}
    /\ UNCHANGED vars

\* Slip: an arm does not store the channels only its sibling wrote.
OnlyOwnWrites(own, sibling) == {}

\* #commitMissingJoinChannels: what an arm must store for its sibling.
Missing(own, sibling) == sibling \ own

\* The joined channels are recorded as written by the enclosing arm.
OuterLog(joined) == IF Tail(scopes) = << >> THEN {} ELSE Inner.log \cup joined

(***************************************************************************)
(* The arm falls through and the join is built: the arm stores what it     *)
(* wrote, each arm stores what only the other one wrote (from the tracker  *)
(* as it was before the arms, the then-arm's first), and the joined        *)
(* channels are forgotten; what the path has written is what it had before *)
(* the arm, and the joined channels.  sibling is what the other arm may    *)
(* write; an arm that completes contributes nothing and receives nothing.  *)
(***************************************************************************)
LeaveArm(siblingContinues, sibling) ==
    /\ Running
    /\ InArm
    /\ Disjoint(log \cup sibling)
    /\ Disjoint(OuterLog(log \cup sibling))
    /\ \/ log \cup sibling \subseteq Inner.settled
       \/ siblingContinues /\ {} \in {log, sibling}
    /\ sibling # {} => siblingContinues /\ phase = "committing"
    /\ LET saved == Inner.saved
           joined == log \cup sibling
           own == IF siblingContinues THEN Missing(log, sibling) ELSE {}
           other == IF siblingContinues THEN Missing(sibling, log) ELSE {}
           before == IF Inner.kind = "then" THEN saved
                     ELSE AfterFlush(saved, FlushedToRead(saved, other))
           after == AfterFlush(saved, FlushedToRead(saved, own \cup other)) IN
       /\ mem' = Committed(Committed(mem, Tracker, log), before, own)
       /\ SetTracker(Invalidated(after, joined))
       /\ written' = Inner.written \cup joined
       /\ log' = OuterLog(joined)
    /\ exact' = Inner.exact
    /\ scopes' = Tail(scopes)
    /\ UNCHANGED <<phase, result, startRegs>>

-----------------------------------------------------------------------------
\* Slip: the loop keeps the boundary of the instruction.
BoundaryOfInstruction(t) == t

\* Slip: the boundary is taken but a store before it still counts.
BoundaryWithOldStores(t) ==
    LET kept == UNION {Extent[c] : c \in DOMAIN t.entries} IN
    [t EXCEPT !.boundaryKeys = DOMAIN t.entries,
              !.restore = [b \in kept |->
                  t.entries[CHOOSE c \in DOMAIN t.entries : b \in Extent[c]][b]]]

\* beginInstructionBoundary: every tracked value, dirty or not.
BoundaryHere(t) ==
    LET kept == UNION {Extent[c] : c \in DOMAIN t.entries} IN
    [t EXCEPT !.boundaryKeys = DOMAIN t.entries,
              !.restore = [b \in kept |->
                  t.entries[CHOOSE c \in DOMAIN t.entries : b \in Extent[c]][b]],
              !.unrestorable = FALSE]

\* Slip: the loop inputs are tracked as if memory held them.
CarryingClean(t, values) ==
    LET W == DOMAIN values
        kept == Invalidated(t, W).entries IN
    [t EXCEPT !.entries = [c \in DOMAIN kept \cup W |->
                               IF c \in W THEN values[c] ELSE kept[c]],
              !.dirty = Invalidated(t, W).dirty]

\* Every carried channel tracked as the loop input that holds values[c].
Carrying(t, values) ==
    LET W == DOMAIN values
        kept == Invalidated(t, W).entries IN
    [t EXCEPT !.entries = [c \in DOMAIN kept \cup W |->
                               IF c \in W THEN values[c] ELSE kept[c]],
              !.dirty = Invalidated(t, W).dirty \cup W]

\* The iteration starts here: a fault in it restores no further.
IterationTop(t, r) ==
    /\ SetTracker(BoundaryHere(t))
    /\ startRegs' = r
    /\ exact' = {}
    /\ written' = {}
    /\ phase' = "checking"
    /\ result' = NoResult

\* The body is lowered once into a scratch region for the channels it writes,
\* which an assertion keeps disjoint; nothing else of that run is kept.
LoopWrites == {W \in SUBSET Channel : Disjoint(W)}

(***************************************************************************)
(* begin reads a seed for each carried channel, storing what overlaps it;  *)
(* enter tracks the inputs.  The shipped loops stand in an arm (REP, ENTER).*)
(***************************************************************************)
EnterLoop(W) ==
    /\ Running
    /\ InArm
    /\ Disjoint(log \cup W)
    /\ LET F == FlushedToRead(Tracker, W)
           seeded == AfterFlush(Tracker, F)
           missing == W \ DOMAIN entries
           values == [c \in W |-> On(Registers, c)]
           read == [seeded EXCEPT !.reads =
                       [c \in DOMAIN @ \cup missing |->
                           IF c \in missing THEN values[c] ELSE @[c]]]
           top == Carrying(read, values) IN
       /\ mem' = Stored(F)
       /\ IterationTop(top, Registers)
       /\ scopes' = << [kind |-> "loop", carried |-> W, entry |-> mem',
                        top |-> top, iteration |-> 1] >> \o scopes
    /\ log' = log \cup W

\* captureExitValues and the branch back to the top with them.
ContinueLoop ==
    /\ Running
    /\ InLoop
    /\ Inner.iteration < MaxIterations
    /\ LET values == [c \in Inner.carried |-> On(Registers, c)] IN
       IterationTop(Carrying(Inner.top, values), Registers)
    /\ scopes' = << [Inner EXCEPT !.iteration = @ + 1] >> \o Tail(scopes)
    /\ UNCHANGED <<mem, log>>

\* exitWritebacks and close.  Nothing raises after a loop.
LeaveLoop ==
    /\ phase = "committing"
    /\ InLoop
    /\ LET bytes == UNION {Extent[c] : c \in Inner.carried} IN
       mem' = [b \in Byte |-> IF b \in bytes THEN Registers[b] ELSE mem[b]]
    /\ SetTracker(Invalidated(Tracker, Inner.carried))
    /\ written' = written \cup Inner.carried
    /\ scopes' = Tail(scopes)
    /\ UNCHANGED <<phase, result, startRegs, exact, log>>

-----------------------------------------------------------------------------
\* A read of state memory in a loop body is placed before the loop
\* (resourceReadPlacement), unless it overlaps what the loop carries.
PlacedAt == IF InLoop THEN Inner.entry ELSE mem'

ReadMemory(c) ==
    /\ c \notin DOMAIN entries
    /\ InLoop => \A d \in Inner.carried : ~Overlaps(c, d)
    /\ LET S == OverlappingIn(DOMAIN entries, c)
           left == ReadsAfterFlush(S) IN
       /\ Programs = "aligned" /\ ~AtRoot => Flushed(S) = {}
       /\ FlushStores(S)
       /\ dirty' = dirty \ S
       /\ result' = IF c \in DOMAIN left THEN left[c] ELSE On(PlacedAt, c)
       /\ reads' = Put(left, c, result')
       /\ UNCHANGED entries

ReadName(c) ==
    /\ Running
    /\ ReadTracked(c) \/ ReadMemory(c)
    /\ exact' = exact \cup {c}
    /\ UNCHANGED <<phase, startRegs, written, scopes, log>>

WriteName(c, v) ==
    /\ Write(c, v)
    /\ InArm => /\ c \in Inner.settled
                /\ phase = "committing"
                /\ Disjoint(log \cup {c})
    /\ InLoop => c \in Inner.carried
    /\ log' = Logged(log \cup {c})
    /\ UNCHANGED scopes

\* The path ends: wherever it is, it ends outside every scope.
EndPath(End) == End /\ scopes' = << >> /\ log' = {} /\ opened' = 0 /\ accesses' = 0

Open ==
    /\ opened < MaxScopes
    /\ \/ \E which \in {"then", "else"} : OpenArm(which)
       \/ \E W \in LoopWrites : EnterLoop(W)
    /\ opened' = opened + 1
    /\ UNCHANGED accesses

Leave ==
    /\ \/ LeaveArm(FALSE, {})
       \/ \E W \in SUBSET Channel : LeaveArm(TRUE, W)
       \/ LeaveLoop
       \/ ContinueLoop
    /\ UNCHANGED counters

Access ==
    /\ accesses < MaxAccesses
    /\ \E c \in Channel : ReadName(c) \/ \E v \in ChannelValue(c) : WriteName(c, v)
    /\ accesses' = accesses + 1
    /\ UNCHANGED opened

StructuredNext ==
    \/ (Enter \/ Commit) /\ UNCHANGED structure
    \/ AtRoot /\ BeginInstruction /\ UNCHANGED structure
    \/ (\A i \in DOMAIN scopes : scopes[i].kind # "loop") /\ Complete /\ UNCHANGED structure
    \/ EndPath(Fault)
    \/ EndPath(Publish)
    \/ Open
    \/ Leave
    \/ Access

StructuredSpec == StructuredInit /\ [][StructuredNext]_structuredVars

-----------------------------------------------------------------------------
\* Types: a snapshot is a tracker, a carried channel is tracked, and only
\* loops have an entry memory.
StructuredTypeOK ==
    /\ TypeOK
    /\ log \subseteq Channel /\ Disjoint(log)
    /\ \A i \in DOMAIN scopes :
          LET scope == scopes[i]
              t == IF scope.kind = "loop" THEN scope.top ELSE scope.saved IN
          /\ scope.kind \in {"then", "else", "loop"}
          /\ t.dirty \subseteq DOMAIN t.entries
          /\ DOMAIN t.reads \subseteq Channel
          /\ scope.kind = "loop" =>
                scope.entry \in [Byte -> Value] /\ scope.carried \subseteq t.dirty

(***************************************************************************)
(* A read made in a loop body returns what the register holds.  The read   *)
(* stands before the loop, and resourceReadPlacement takes every channel   *)
(* the loop does not carry for loop-invariant.                             *)
(***************************************************************************)
LoopReadsAreCurrent ==
    [][\A c \in Channel : InLoop /\ ReadName(c) => result' = On(Registers, c)]_structuredVars
=============================================================================
